---- MODULE Spec2Model ----
(***************************************************************************)
(* A model of the coil concurrency toolkit: the synchronisation primitives *)
(* of coilth/sync.py (Lock, Notification, Semaphore, Barrier), the job     *)
(* algebra and Supervisor of coilth/jobs.py, and the topic bus of          *)
(* coil/mailbox.py (Group, Mailbox).                                       *)
(*                                                                         *)
(* Each component has its own variables, its own initial predicate and its *)
(* own next-state relation; a component's specification leaves the other   *)
(* components in their constructed state.                                  *)
(***************************************************************************)
EXTENDS Integers, Sequences, FiniteSets, TLC

VARIABLES
    \* ---- Barrier (sync.py 153-186) ----
    bar_waiters_needed,     \* Barrier._waiters_needed
    bar_callers,            \* how many threads call push (threads 1..bar_callers)
    bar_waiters,            \* Barrier._waiters
    bar_inc_lock,           \* Barrier._inc_lock: TRUE when locked
    bar_broken,             \* Barrier._broken_notification._waiters (queue of waiter locks)
    bar_finished,           \* Barrier._finished_notification._waiters
    bar_wlock,              \* per thread: the Lock its Notification.wait created
    bar_pc,                 \* per thread: position inside push
    \* ---- Semaphore (sync.py 121-150) ----
    sem_limit,              \* the limit the Semaphore was constructed with
    sem_remaining,          \* Semaphore._remaining
    sem_lock,               \* Semaphore._lock: TRUE when locked
    sem_waiters,            \* Semaphore._waiters._waiters (queue of waiter locks)
    sem_wlock,              \* per thread: the Lock its Notification.wait created
    sem_pc,                 \* per thread: position inside acquire / release
    sem_prog,               \* per thread: the calls it still has to make
    sem_issued,             \* number of acquire calls that have returned
    sem_released,           \* number of release calls that have incremented _remaining
    \* ---- Retry.promise (jobs.py 90-138) ----
    rt_arg_consecutive,     \* the max_consecutive_fails argument (0: None)
    rt_arg_total,           \* the max_total_fails argument (0: None)
    rt_max_fails_total,     \* Retry._max_fails_total
    rt_max_consecutive_fails, \* Retry._max_consecutive_fails
    rt_cmgr,                \* Retry._cmgr is not None
    rt_status,              \* status of the promise that Retry.promise returned
    rt_crashed,             \* its ThreadResult.crashed
    rt_fails,               \* run's local `fails`
    rt_attempts,            \* number of calls of self._func made by run
    \* ---- Supervisor and the service "w" = Loop(Retry(worker)) (jobs.py) ----
    sup_submit,             \* Supervisor._submit: "global" (submit_global) or "exits"
    sup_jobs,               \* the keys of Supervisor._jobs
    sup_pc,                 \* position of the caller of Supervisor.shutdown
    sup_error,              \* the exception that left shutdown ("none": none)
    sup_refused,            \* a start_service call made after shutdown began has raised
    svc_max_fails_total,    \* the service's Retry._max_fails_total
    svc_max_consecutive_fails, \* the service's Retry._max_consecutive_fails
    svc_submit,             \* the submitter that Loop.promise's run closed over
    svc_status,             \* status of the service's thread ("none": no thread yet)
    svc_error,              \* the exception its ThreadResult holds ("none": none)
    svc_consecutive_fails,  \* loop_generator's consecutive_fails
    svc_total_fails,        \* loop_generator's total_fails
    svc_last_call,          \* what the last submit call of the service did
    svc_pc,                 \* position of the service inside loop_generator
    \* ---- Group and Mailbox (mailbox.py) ----
    grp_groups,             \* Group.groups: name -> Group
    grp_heap,               \* the live Group objects: object -> its fields
    grp_made,               \* the Group(name) calls made: name given, object returned
    grp_raised,             \* the last Group(name) call raised IndexError
    bus_extensions,         \* Group.extensions: Group -> the policy of its Extension
    bus_chats,              \* Mailbox.chats: Group -> set of Mailbox
    bus_subscribed,         \* number of subscribe and unsubscribe calls made
    mb_messages,            \* per mailbox: Mailbox.messages (index 1 is the left end)
    mb_waiters,             \* per mailbox: Mailbox._notification._waiters
    mb_wlock,               \* per mailbox: the waiter lock of its consumer's get()
    mb_pc,                  \* per mailbox: position of its consumer inside get()
    mb_got,                 \* per mailbox: what its consumer's get() calls returned
    mb_count,               \* per mailbox: number of messages appended so far
    bus_stack,              \* the active Mailbox.send calls, outermost first
    bus_sends,              \* number of top-level send calls made
    bus_target,             \* the group of the last top-level send
    bus_delivered,          \* per mailbox: messages appended by the last top-level send
    bus_quiet,              \* no table was changed since the last top-level send began
    bus_error,              \* the last top-level send ended in RecursionError
    \* ---- Thread (threads.py) ----
    th_fn,                  \* what the callable does: "returns" or "raises"
    th_status,              \* Thread._status.status_string
    th_result,              \* Thread._status.result: "none", "value" (crashed false) or "error"
    th_finished,            \* the Lock of Thread._finished (locked is unset)
    th_starts,              \* number of start() calls made
    th_runs,                \* number of times the callable was called
    th_wpc,                 \* per spawned worker: position inside __worker_single
    th_cpc,                 \* per caller: position inside join
    th_call,                \* per caller: the call in progress
    th_calls,               \* per caller: the calls ended, with their outcomes
    \* ---- Pool (threads.py) ----
    pl_tasks,               \* Pool._tasks: the promises of the queued tasks
    pl_lock,                \* Pool._task_array_lock
    pl_tn,                  \* Pool._task_notification._waiters
    pl_tp,                  \* Pool._task_processed._waiters
    pl_wl,                  \* per thread: the waiter lock of its wait()
    pl_shutting_down,       \* Pool._shutting_down
    pl_active,              \* Pool.active
    pl_wpc,                 \* per worker: position inside __worker
    pl_wtask,               \* Pool._workers: per worker its task (0 is None)
    pl_pfn,                 \* per task: what its callable does
    pl_pstatus,             \* per task: Promise._new_info.status_string
    pl_presult,             \* per task: Promise._new_info.result
    pl_pevent,              \* per task: the Lock of Promise._finished_event
    pl_made,                \* number of promises made by submit
    pl_cpc,                 \* per client: position inside submit
    pl_ctask,               \* per client: the promise of the submit in progress
    pl_mpc,                 \* position of the shutdown caller
    pl_raised,              \* a submit raised RuntimeError (1) or none did (0)
    pl_late,                \* a task was appended with _shutting_down set
    \* ---- Notification (sync.py) ----
    nf_waiters,             \* Notification._waiters
    nf_wl,                  \* per thread: the waiter lock of its wait()
    nf_pc,                  \* per thread: position inside wait
    nf_last,                \* the last notify: its count, the queue before, the outcome
    nf_notifies,            \* number of notify calls made
    \* ---- Event (sync.py) ----
    ev_lock,                \* Event._lock
    ev_pc,                  \* per thread: position inside set, clear or wait
    ev_sets,                \* set calls that returned since the last clear returned
    ev_ops,                 \* number of calls begun
    ev_raised,              \* per thread: the call of its that raised last, if its last call did
    ev_seen,                \* per thread: ev_sets when the test of its set call passed
    \* ---- Queue (sync.py) ----
    q_inner,                \* Queue._inner, left end first
    q_maxlen,               \* Queue._inner.maxlen
    q_overflow_behavior,    \* Queue._overflow_behavior
    q_lock,                 \* Queue._lock
    q_added,                \* Queue._added_element._waiters
    q_popped,               \* Queue._popped_element._waiters
    q_wl,                   \* per thread: the waiter lock of its wait()
    q_pc,                   \* per thread: position inside add or pop
    q_item,                 \* per thread: the item of its add call
    q_adds,                 \* number of add calls begun
    q_pops,                 \* number of pop calls begun
    q_since,                \* per thread: items popped since the test of its add call
    q_last,                 \* the last add: the queue at its test and after its append
    q_error,                \* per thread: the error its last call raised
    \* ---- Loop around a Retry (jobs.py) ----
    lp_args,                \* the arguments of the job: "none", or "one" argument
    lp_max_fails_total,     \* the Retry's _max_fails_total
    lp_max_consecutive_fails, \* the Retry's _max_consecutive_fails
    lp_status,              \* status of the thread of Loop.promise's run
    lp_error,               \* the last exception raised in run
    lp_pc,                  \* position inside loop_generator and run
    lp_consecutive_fails,   \* loop_generator's consecutive_fails
    lp_total_fails,         \* loop_generator's total_fails
    lp_turns,               \* number of submit calls of the generator
    lp_failed,              \* number of attempts that failed
    \* ---- a service on a Supervisor's own Pool (jobs.py, threads.py) ----
    ns_inner,               \* per worker: the promise its wrapper submitted and waits for
    ns_kind                 \* the service: "loop" (Loop(Once(fn))) or "once" (Once(fn, cmgr))

barVars == <<bar_waiters_needed, bar_callers, bar_waiters, bar_inc_lock,
             bar_broken, bar_finished, bar_wlock, bar_pc>>

semVars == <<sem_limit, sem_remaining, sem_lock, sem_waiters, sem_wlock,
             sem_pc, sem_prog, sem_issued, sem_released>>

rtVars == <<rt_arg_consecutive, rt_arg_total, rt_max_fails_total,
            rt_max_consecutive_fails, rt_cmgr, rt_status, rt_crashed, rt_fails,
            rt_attempts>>

supVars == <<sup_submit, sup_jobs, sup_pc, sup_error, sup_refused,
             svc_max_fails_total, svc_max_consecutive_fails, svc_submit, svc_status,
             svc_error, svc_consecutive_fails, svc_total_fails, svc_last_call, svc_pc>>

busVars == <<grp_groups, grp_heap, grp_made, grp_raised, bus_extensions, bus_chats, bus_subscribed,
             mb_messages, mb_waiters, mb_wlock, mb_pc, mb_got, mb_count, bus_stack,
             bus_sends, bus_target, bus_delivered, bus_quiet, bus_error>>

thVars == <<th_fn, th_status, th_result, th_finished, th_starts, th_runs, th_wpc, th_cpc,
            th_call, th_calls>>

poolVars == <<pl_tasks, pl_lock, pl_tn, pl_tp, pl_wl, pl_shutting_down, pl_active, pl_wpc,
              pl_wtask, pl_pfn, pl_pstatus, pl_presult, pl_pevent, pl_made, pl_cpc, pl_ctask,
              pl_mpc, pl_raised, pl_late>>

notifVars == <<nf_waiters, nf_wl, nf_pc, nf_last, nf_notifies>>

eventVars == <<ev_lock, ev_pc, ev_sets, ev_ops, ev_raised, ev_seen>>

queueVars == <<q_inner, q_maxlen, q_overflow_behavior, q_lock, q_added, q_popped, q_wl, q_pc,
               q_item, q_adds, q_pops, q_since, q_last, q_error>>

loopVars == <<lp_args, lp_max_fails_total, lp_max_consecutive_fails, lp_status, lp_error,
              lp_pc, lp_consecutive_fails, lp_total_fails, lp_turns, lp_failed>>

nestVars == <<ns_inner, ns_kind>>

vars == <<barVars, semVars, rtVars, supVars, busVars, thVars, poolVars, notifVars, eventVars, queueVars, loopVars, nestVars>>

----------------------------------------------------------------------------
(* Bounds of the model. *)

MaxThreads == 3

\* The largest limit a Semaphore is constructed with.
MaxLimit == 2

\* The largest failure bound a Retry is constructed with.
MaxBound == 5

\* The number of Group(name) calls, of add_extension calls, of subscribe and
\* unsubscribe calls, and of top-level Mailbox.send calls a run makes.
MaxGroups == 2
MaxExtensions == 2
MaxSubscriptions == 2
MaxSends == 2

\* The number of start() calls on a Thread, of threads that call join or
\* result, and of calls each of them makes.
MaxStarts == 2
MaxCallers == 2
MaxCalls == 2

\* The workers of a Pool, the threads that call submit, and the tasks they submit.
MaxPoolWorkers == 2
MaxClients == 2
MaxTasks == 2

\* The count given to Notification.notify, and the notify calls made.
MaxCount == 4
MaxNotifies == 2

\* The calls made on an Event.
MaxOps == 4

\* The capacity of a Queue, and the add and pop calls made on it.
MaxSize == 2
MaxAdds == 3
MaxPops == 2

\* The turns of a Loop that the model follows.
MaxTurns == 4

\* The depth of nested Mailbox.send calls at which Python gives up
\* (RecursionError); the interpreter's limit is far larger.
MaxDepth == 4

Threads == 1..MaxThreads

----------------------------------------------------------------------------
(* cogs.Lock: a non-recursive mutex with an observable locked flag.  A lock *)
(* is modelled by that flag.                                                *)

\* Lock.acquire can return only when the mutex is free.
LockCanAcquire(l) == l = FALSE

\* The flag after Lock.acquire returned.
LockAcquired == TRUE

\* The flag after Lock.release.
LockReleased == FALSE

----------------------------------------------------------------------------
(* sync.Notification.  The waiter queue holds the Lock objects that wait()  *)
(* created; a thread is inside at most one wait(), so its lock is named by  *)
(* the thread.  A waiter lock is "none" (no wait in progress), "held"       *)
(* (acquired once, queued) or "released" (notify released it).              *)

\* Notification.wait, lines 31-34: lock = Lock(); lock.acquire(); append.
NotifEnqueue(q, t) == Append(q, t)

\* Notification.wait, line 36: the second acquire returns once notify released the lock.
NotifCanWake(wl) == wl = "released"

Min(a, b) == IF a <= b THEN a ELSE b

\* Notification.notify(count): nothing when the queue is empty; otherwise
\* popleft().release() count times.  popleft on an emptied deque raises
\* IndexError (err) after the waiters before it were released.
Notify(q, count) ==
    IF Len(q) = 0
    THEN [q |-> q, woken |-> {}, err |-> FALSE]
    ELSE LET k == Min(count, Len(q)) IN
         [q     |-> SubSeq(q, k + 1, Len(q)),
          woken |-> {q[i] : i \in 1..k},
          err   |-> count > Len(q)]

\* Notification.notify_all: notify(len(self._waiters)).
NotifyAll(q) == Notify(q, Len(q))

\* Notification.notify_one: notify(1).
NotifyOne(q) == Notify(q, 1)

\* The waiter locks after the locks of the threads in `woken` were released.
ReleaseWaiters(wl, woken) ==
    [t \in DOMAIN wl |-> IF t \in woken THEN "released" ELSE wl[t]]

----------------------------------------------------------------------------
(* sync.Barrier *)

BarCallers == 1..bar_callers

\* Barrier(needed), about to be pushed by `callers` threads.
BarNew(needed, callers) ==
    /\ bar_waiters_needed = needed
    /\ bar_callers = callers
    /\ bar_waiters = 0
    /\ bar_inc_lock = FALSE
    /\ bar_broken = <<>>
    /\ bar_finished = <<>>
    /\ bar_wlock = [t \in Threads |-> "none"]
    /\ bar_pc = [t \in Threads |-> "idle"]

BarConst == UNCHANGED <<bar_waiters_needed, bar_callers>>

\* A step of the barrier leaves the other components alone.
BarFrame == UNCHANGED <<semVars, rtVars, supVars, busVars, thVars, poolVars, notifVars, eventVars, queueVars, loopVars, nestVars>>

\* push, line 164: with self._inc_lock (first block) -- acquire.
BarEnter1(t) ==
    /\ bar_pc[t] = "idle"
    /\ LockCanAcquire(bar_inc_lock)
    /\ bar_inc_lock' = LockAcquired
    /\ bar_pc' = [bar_pc EXCEPT ![t] = "cs1"]
    /\ UNCHANGED <<bar_waiters, bar_broken, bar_finished, bar_wlock>>
    /\ BarConst

\* The test of line 167: is this the arrival that breaks the barrier?
BarIsLastArrival(w, needed) == w = needed

\* push, lines 165-170 and the exit of the with block.
BarArrive(t) ==
    /\ bar_pc[t] = "cs1"
    /\ bar_waiters' = bar_waiters + 1
    /\ IF BarIsLastArrival(bar_waiters + 1, bar_waiters_needed)
       THEN LET r == NotifyAll(bar_broken) IN
            /\ bar_broken' = r.q
            /\ bar_wlock' = ReleaseWaiters(bar_wlock, r.woken)
            /\ bar_pc' = [bar_pc EXCEPT ![t] = "enter2"]
       ELSE /\ UNCHANGED <<bar_broken, bar_wlock>>
            /\ bar_pc' = [bar_pc EXCEPT ![t] = "wait1"]
    /\ bar_inc_lock' = LockReleased
    /\ UNCHANGED bar_finished
    /\ BarConst

\* push, line 173: self._broken_notification.wait(), up to the append.
BarWaitBroken(t) ==
    /\ bar_pc[t] = "wait1"
    /\ bar_broken' = NotifEnqueue(bar_broken, t)
    /\ bar_wlock' = [bar_wlock EXCEPT ![t] = "held"]
    /\ bar_pc' = [bar_pc EXCEPT ![t] = "block1"]
    /\ UNCHANGED <<bar_waiters, bar_inc_lock, bar_finished>>
    /\ BarConst

\* push, line 173: the wait returns.
BarWakeBroken(t) ==
    /\ bar_pc[t] = "block1"
    /\ NotifCanWake(bar_wlock[t])
    /\ bar_wlock' = [bar_wlock EXCEPT ![t] = "none"]
    /\ bar_pc' = [bar_pc EXCEPT ![t] = "enter2"]
    /\ UNCHANGED <<bar_waiters, bar_inc_lock, bar_broken, bar_finished>>
    /\ BarConst

\* push, line 177: with self._inc_lock (second block) -- acquire.
BarEnter2(t) ==
    /\ bar_pc[t] = "enter2"
    /\ LockCanAcquire(bar_inc_lock)
    /\ bar_inc_lock' = LockAcquired
    /\ bar_pc' = [bar_pc EXCEPT ![t] = "cs2"]
    /\ UNCHANGED <<bar_waiters, bar_broken, bar_finished, bar_wlock>>
    /\ BarConst

\* push, lines 178-183 and the exit of the with block.
BarLeave(t) ==
    /\ bar_pc[t] = "cs2"
    /\ bar_waiters' = bar_waiters - 1
    /\ IF bar_waiters - 1 = 0
       THEN LET r == NotifyAll(bar_finished) IN
            /\ bar_finished' = r.q
            /\ bar_wlock' = ReleaseWaiters(bar_wlock, r.woken)
            /\ bar_pc' = [bar_pc EXCEPT ![t] = "done"]
       ELSE /\ UNCHANGED <<bar_finished, bar_wlock>>
            /\ bar_pc' = [bar_pc EXCEPT ![t] = "wait2"]
    /\ bar_inc_lock' = LockReleased
    /\ UNCHANGED bar_broken
    /\ BarConst

\* push, line 186: self._finished_notification.wait(), up to the append.
BarWaitFinished(t) ==
    /\ bar_pc[t] = "wait2"
    /\ bar_finished' = NotifEnqueue(bar_finished, t)
    /\ bar_wlock' = [bar_wlock EXCEPT ![t] = "held"]
    /\ bar_pc' = [bar_pc EXCEPT ![t] = "block2"]
    /\ UNCHANGED <<bar_waiters, bar_inc_lock, bar_broken>>
    /\ BarConst

\* push, line 186: the wait returns, and push with it.
BarWakeFinished(t) ==
    /\ bar_pc[t] = "block2"
    /\ NotifCanWake(bar_wlock[t])
    /\ bar_wlock' = [bar_wlock EXCEPT ![t] = "none"]
    /\ bar_pc' = [bar_pc EXCEPT ![t] = "done"]
    /\ UNCHANGED <<bar_waiters, bar_inc_lock, bar_broken, bar_finished>>
    /\ BarConst

BarNext ==
    \/ \E t \in BarCallers : BarEnter1(t) /\ BarFrame
    \/ \E t \in BarCallers : BarArrive(t) /\ BarFrame
    \/ \E t \in BarCallers : BarWaitBroken(t) /\ BarFrame
    \/ \E t \in BarCallers : BarWakeBroken(t) /\ BarFrame
    \/ \E t \in BarCallers : BarEnter2(t) /\ BarFrame
    \/ \E t \in BarCallers : BarLeave(t) /\ BarFrame
    \/ \E t \in BarCallers : BarWaitFinished(t) /\ BarFrame
    \/ \E t \in BarCallers : BarWakeFinished(t) /\ BarFrame

----------------------------------------------------------------------------
(* sync.Semaphore.  A thread runs a short program of calls: "A" is acquire *)
(* and "R" is release; <<"A", "R">> is the with-statement of lines 142-150. *)

SemPrograms == {<<"A">>, <<"R">>, <<"A", "R">>}

\* Semaphore(limit), about to be used by threads running `prog`.
SemNew(limit, prog) ==
    /\ sem_limit = limit
    /\ sem_remaining = sem_limit
    /\ sem_lock = FALSE
    /\ sem_waiters = <<>>
    /\ sem_wlock = [t \in Threads |-> "none"]
    /\ sem_pc = [t \in Threads |-> IF prog[t] = <<>> THEN "done" ELSE "call"]
    /\ sem_prog = prog
    /\ sem_issued = 0
    /\ sem_released = 0

\* A step of the semaphore leaves the other components alone.
SemFrame == UNCHANGED <<barVars, rtVars, supVars, busVars, thVars, poolVars, notifVars, eventVars, queueVars, loopVars, nestVars>>

\* The thread's position after the call at the head of its program returned.
SemReturn(t) ==
    /\ sem_prog' = [sem_prog EXCEPT ![t] = Tail(sem_prog[t])]
    /\ sem_pc' = [sem_pc EXCEPT ![t] = IF Len(sem_prog[t]) = 1 THEN "done" ELSE "call"]

\* acquire, line 129: with self._lock -- acquire.
SemAcquireLock(t) ==
    /\ sem_pc[t] = "call"
    /\ Head(sem_prog[t]) = "A"
    /\ LockCanAcquire(sem_lock)
    /\ sem_lock' = LockAcquired
    /\ sem_pc' = [sem_pc EXCEPT ![t] = "acq_cs"]
    /\ UNCHANGED <<sem_limit, sem_remaining, sem_waiters, sem_wlock, sem_prog,
                   sem_issued, sem_released>>

\* Mutant of the test of line 130: a permit is taken when none remains.
SemHasPermitOffByOne(remaining) == remaining >= 0

\* The test of line 130.
SemHasPermit(remaining) == remaining > 0

\* acquire, lines 130-132: take a permit and return (leaving the with block),
\* or go on to line 134 with the lock still held.
SemAcquireCheck(t) ==
    /\ sem_pc[t] = "acq_cs"
    /\ IF SemHasPermit(sem_remaining)
       THEN /\ sem_remaining' = sem_remaining - 1
            /\ sem_issued' = sem_issued + 1
            /\ sem_lock' = LockReleased
            /\ SemReturn(t)
       ELSE /\ sem_pc' = [sem_pc EXCEPT ![t] = "acq_wait"]
            /\ UNCHANGED <<sem_remaining, sem_issued, sem_lock, sem_prog>>
    /\ UNCHANGED <<sem_limit, sem_waiters, sem_wlock, sem_released>>

\* acquire, line 134: self._waiters.wait(), up to the append; the with block
\* of line 129 is still open, so self._lock stays locked.
SemAcquireWait(t) ==
    /\ sem_pc[t] = "acq_wait"
    /\ sem_waiters' = NotifEnqueue(sem_waiters, t)
    /\ sem_wlock' = [sem_wlock EXCEPT ![t] = "held"]
    /\ sem_pc' = [sem_pc EXCEPT ![t] = "acq_block"]
    /\ UNCHANGED <<sem_limit, sem_remaining, sem_lock, sem_prog, sem_issued, sem_released>>

\* acquire, line 134: the wait returns, the with block is left (the lock is
\* released) and the while loop of line 128 starts over.
SemAcquireWake(t) ==
    /\ sem_pc[t] = "acq_block"
    /\ NotifCanWake(sem_wlock[t])
    /\ sem_wlock' = [sem_wlock EXCEPT ![t] = "none"]
    /\ sem_lock' = LockReleased
    /\ sem_pc' = [sem_pc EXCEPT ![t] = "call"]
    /\ UNCHANGED <<sem_limit, sem_remaining, sem_waiters, sem_prog, sem_issued, sem_released>>

\* release, line 137: with self._lock -- acquire.
SemReleaseLock(t) ==
    /\ sem_pc[t] = "call"
    /\ Head(sem_prog[t]) = "R"
    /\ LockCanAcquire(sem_lock)
    /\ sem_lock' = LockAcquired
    /\ sem_pc' = [sem_pc EXCEPT ![t] = "rel_cs"]
    /\ UNCHANGED <<sem_limit, sem_remaining, sem_waiters, sem_wlock, sem_prog,
                   sem_issued, sem_released>>

\* release, line 138 and the exit of the with block.
SemReleaseIncrement(t) ==
    /\ sem_pc[t] = "rel_cs"
    /\ sem_remaining' = sem_remaining + 1
    /\ sem_released' = sem_released + 1
    /\ sem_lock' = LockReleased
    /\ sem_pc' = [sem_pc EXCEPT ![t] = "rel_notify"]
    /\ UNCHANGED <<sem_limit, sem_waiters, sem_wlock, sem_prog, sem_issued>>

\* release, line 140: self._waiters.notify_one(), and release returns.
SemReleaseNotify(t) ==
    /\ sem_pc[t] = "rel_notify"
    /\ LET r == NotifyOne(sem_waiters) IN
       /\ sem_waiters' = r.q
       /\ sem_wlock' = ReleaseWaiters(sem_wlock, r.woken)
    /\ SemReturn(t)
    /\ UNCHANGED <<sem_limit, sem_remaining, sem_lock, sem_issued, sem_released>>

SemNext ==
    \/ \E t \in Threads : SemAcquireLock(t) /\ SemFrame
    \/ \E t \in Threads : SemAcquireCheck(t) /\ SemFrame
    \/ \E t \in Threads : SemAcquireWait(t) /\ SemFrame
    \/ \E t \in Threads : SemAcquireWake(t) /\ SemFrame
    \/ \E t \in Threads : SemReleaseLock(t) /\ SemFrame
    \/ \E t \in Threads : SemReleaseIncrement(t) /\ SemFrame
    \/ \E t \in Threads : SemReleaseNotify(t) /\ SemFrame

----------------------------------------------------------------------------
(* jobs.Retry.  float("inf") is the value Inf; a bound argument of None (or *)
(* 0, which Python also takes for false) is the argument 0.                 *)

Inf == -1

\* `x if x else float("inf")`, lines 100-101.
OrInf(x) == IF x = 0 THEN Inf ELSE x

\* Python's max over ints and float("inf"), line 110.
PyMax(a, b) == IF a = Inf \/ b = Inf THEN Inf ELSE IF a >= b THEN a ELSE b

\* Python's n > bound, where n is an int and bound an int or float("inf").
Exceeds(n, bound) == bound # Inf /\ n > bound

\* Retry.__init__, lines 98-101: the tuple assignment gives _max_fails_total
\* the consecutive argument and _max_consecutive_fails the total argument.
RetryMaxFailsTotal(max_consecutive_fails, max_total_fails) == OrInf(max_consecutive_fails)
RetryMaxConsecutiveFails(max_consecutive_fails, max_total_fails) == OrInf(max_total_fails)

\* Retry(fn, crash_manager, max_consecutive_fails, max_total_fails).promise(submit):
\* the promise is handed out before its thread has started run.
RetryNew(cons, total, cmgr) ==
    /\ rt_arg_consecutive = cons
    /\ rt_arg_total = total
    /\ rt_max_fails_total = RetryMaxFailsTotal(cons, total)
    /\ rt_max_consecutive_fails = RetryMaxConsecutiveFails(cons, total)
    /\ rt_cmgr = cmgr
    /\ rt_status = "NOT_STARTED"
    /\ rt_crashed = FALSE
    /\ rt_fails = 0
    /\ rt_attempts = 0

RetryIdle == RetryNew(0, 0, FALSE) 

RetryFrame == UNCHANGED <<barVars, semVars, supVars, busVars, thVars, poolVars, notifVars, eventVars, queueVars, loopVars, nestVars>>

RetryConst == UNCHANGED <<rt_arg_consecutive, rt_arg_total, rt_max_fails_total,
                          rt_max_consecutive_fails, rt_cmgr>>

\* An unbounded Retry of an always failing function never ends; the model
\* follows it for this many attempts.
RetryAttemptCap == MaxBound + 2

\* The thread that runs `run` starts (threads.py 46: status RUNNING).
RetryBegin ==
    /\ rt_status = "NOT_STARTED"
    /\ rt_status' = "RUNNING"
    /\ UNCHANGED <<rt_crashed, rt_fails, rt_attempts>>
    /\ RetryConst

\* run, line 110.
RetryMaxFails == PyMax(rt_max_consecutive_fails, rt_max_fails_total)

\* run, lines 119-124 and 129-134: count the failure, and raise or go round again.
RetryCountFailure ==
    /\ rt_fails' = rt_fails + 1
    /\ IF Exceeds(rt_fails + 1, RetryMaxFails)
       THEN rt_status' = "FINISHED" /\ rt_crashed' = TRUE
       ELSE UNCHANGED <<rt_status, rt_crashed>>

\* run, lines 113-136: one turn of the while loop.  fn returns ("ok") or
\* raises ("fail"); the crash manager's promise yields None ("none"), a
\* value ("value") or raises out of result() ("raises").
RetryAttempt(fn, cm) ==
    /\ rt_status = "RUNNING"
    /\ rt_attempts < RetryAttemptCap
    /\ rt_attempts' = rt_attempts + 1
    /\ CASE fn = "ok" ->
              rt_status' = "FINISHED" /\ rt_crashed' = FALSE /\ UNCHANGED rt_fails
         [] fn = "fail" /\ ~rt_cmgr ->
              RetryCountFailure
         [] fn = "fail" /\ rt_cmgr /\ cm = "none" ->
              RetryCountFailure
         [] fn = "fail" /\ rt_cmgr /\ cm = "value" ->
              rt_status' = "FINISHED" /\ rt_crashed' = FALSE /\ UNCHANGED rt_fails
         [] fn = "fail" /\ rt_cmgr /\ cm = "raises" ->
              rt_status' = "FINISHED" /\ rt_crashed' = TRUE /\ UNCHANGED rt_fails
    /\ RetryConst

RetryNext ==
    \/ RetryBegin /\ RetryFrame
    \/ \E fn \in {"ok", "fail"}, cm \in {"none", "value", "raises"} :
           RetryAttempt(fn, cm) /\ RetryFrame

----------------------------------------------------------------------------
(* jobs.Supervisor with pool_workers = 0 (the submitter is submit_global),  *)
(* and one service, "w", started as                                         *)
(*     start_service("w", Loop(Retry(worker, None, cons, total)))           *)
(* with no further arguments.                                               *)

\* Supervisor(): lines 10-18, and the Retry that the service will wrap.
SupNew(cons, total) ==
    /\ sup_submit = "global"
    /\ sup_jobs = {}
    /\ sup_pc = "idle"
    /\ sup_error = "none"
    /\ sup_refused = FALSE
    /\ svc_max_fails_total = RetryMaxFailsTotal(cons, total)
    /\ svc_max_consecutive_fails = RetryMaxConsecutiveFails(cons, total)
    /\ svc_submit = "none"
    /\ svc_status = "none"
    /\ svc_error = "none"
    /\ svc_consecutive_fails = 0
    /\ svc_total_fails = 0
    /\ svc_last_call = "none"
    /\ svc_pc = "try"

SupIdle == SupNew(0, 0)

SupFrame == UNCHANGED <<barVars, semVars, rtVars, busVars, thVars, poolVars, notifVars, eventVars, queueVars, loopVars, nestVars>>

SupConst == UNCHANGED <<svc_max_fails_total, svc_max_consecutive_fails>>

\* What calling the submitter with one positional argument (a function) does:
\* submit_global starts a thread (threads.py 248-254); exits(**_) takes no
\* positional argument (jobs.py 26), so the call raises TypeError.
SubmitWithFunction(submit) == IF submit = "global" THEN "thread" ELSE "TypeError"

\* What calling the submitter with no argument does: submit_global lacks its
\* required `function` (TypeError); exits() raises SystemExit.
SubmitWithoutArguments(submit) == IF submit = "global" THEN "TypeError" ELSE "SystemExit"

\* start_service, line 23: job.promise(self._submit) is Loop.promise, which
\* ends in submit(run) (line 200) with the submitter it was handed; run keeps
\* that submitter.  After shutdown began the call raises and _jobs is unchanged.
SupStartService ==
    /\ "w" \notin sup_jobs
    /\ ~sup_refused
    /\ IF SubmitWithFunction(sup_submit) = "thread"
       THEN /\ sup_jobs' = sup_jobs \cup {"w"}
            /\ svc_submit' = sup_submit
            /\ svc_status' = "NOT_STARTED"
            /\ UNCHANGED sup_refused
       ELSE /\ sup_refused' = TRUE
            /\ UNCHANGED <<sup_jobs, svc_submit, svc_status>>
    /\ UNCHANGED <<sup_submit, sup_pc, sup_error, svc_error, svc_consecutive_fails,
                   svc_total_fails, svc_last_call, svc_pc>>
    /\ SupConst

\* The service's thread starts Loop.promise's run (threads.py 46).
SvcBegin ==
    /\ svc_status = "NOT_STARTED"
    /\ svc_status' = "RUNNING"
    /\ UNCHANGED <<sup_submit, sup_jobs, sup_pc, sup_error, sup_refused, svc_submit,
                   svc_error, svc_consecutive_fails, svc_total_fails, svc_last_call, svc_pc>>
    /\ SupConst

\* The counters of an unbounded Retry grow for ever; above every bound a
\* Retry can have their value no longer matters, and the model stops counting.
CountUp(n) == IF n > MaxBound THEN n ELSE n + 1

\* loop_generator, lines 158-161: the escalation test.
RetryEscalates(consecutive_fails, total_fails, max_consecutive_fails, max_fails_total) ==
    \/ Exceeds(consecutive_fails, max_consecutive_fails)
    \/ Exceeds(total_fails, max_fails_total)

\* Loop.promise's run, lines 193-195, driving Retry.loop_generator, lines
\* 149-151: the generator calls submit(*args, **kwargs) with the service's
\* (empty) arguments inside its try; the call raises.
SvcSubmit ==
    /\ svc_status = "RUNNING"
    /\ svc_pc = "try"
    /\ svc_last_call' = SubmitWithoutArguments(svc_submit)
    /\ svc_pc' = "except"
    /\ UNCHANGED <<sup_submit, sup_jobs, sup_pc, sup_error, sup_refused, svc_submit,
                   svc_status, svc_error, svc_consecutive_fails, svc_total_fails>>
    /\ SupConst

\* loop_generator, lines 153-164 (no crash manager): the failure is counted,
\* and the generator raises it (ending run: threads.py 52-55) or goes round
\* again.
SvcCountFailure ==
    /\ svc_status = "RUNNING"
    /\ svc_pc = "except"
    /\ svc_consecutive_fails' = CountUp(svc_consecutive_fails)
    /\ svc_total_fails' = CountUp(svc_total_fails)
    /\ IF RetryEscalates(svc_consecutive_fails + 1, svc_total_fails + 1,
                         svc_max_consecutive_fails, svc_max_fails_total)
       THEN /\ svc_status' = "FINISHED"
            /\ svc_error' = svc_last_call
            /\ UNCHANGED svc_pc
       ELSE /\ svc_pc' = "try"
            /\ UNCHANGED <<svc_status, svc_error>>
    /\ UNCHANGED <<sup_submit, sup_jobs, sup_pc, sup_error, sup_refused, svc_submit,
                   svc_last_call>>
    /\ SupConst

\* shutdown, lines 26-29: the submitter is replaced.
SupShutdownSwap ==
    /\ sup_pc = "idle"
    /\ sup_submit' = "exits"
    /\ sup_pc' = "join"
    /\ UNCHANGED <<sup_jobs, sup_error, sup_refused, svc_submit, svc_status, svc_error,
                   svc_consecutive_fails, svc_total_fails, svc_last_call, svc_pc>>
    /\ SupConst

\* shutdown, lines 31-35: with no job the loop is empty and shutdown returns
\* (self._pool is None); otherwise job.result() is Promise.result, which
\* begins with Thread.join (threads.py 77-79): a thread that has not yet
\* marked itself RUNNING makes join raise RuntimeError.
SupShutdownJoin ==
    /\ sup_pc = "join"
    /\ IF sup_jobs = {}
       THEN sup_pc' = "returned" /\ UNCHANGED sup_error
       ELSE IF svc_status = "NOT_STARTED"
            THEN sup_pc' = "raised" /\ sup_error' = "RuntimeError"
            ELSE sup_pc' = "wait" /\ UNCHANGED sup_error
    /\ UNCHANGED <<sup_submit, sup_jobs, sup_refused, svc_submit, svc_status, svc_error,
                   svc_consecutive_fails, svc_total_fails, svc_last_call, svc_pc>>
    /\ SupConst

\* shutdown, lines 32-33 with threads.py 81-83 and 225-230: the wait on the
\* thread's completion event returns once the thread has finished; result()
\* raises the exception the thread captured, and contextlib.suppress lets
\* only SystemExit pass.
SupShutdownWait ==
    /\ sup_pc = "wait"
    /\ svc_status = "FINISHED"
    /\ IF svc_error \in {"none", "SystemExit"}
       THEN sup_pc' = "returned" /\ UNCHANGED sup_error
       ELSE sup_pc' = "raised" /\ sup_error' = svc_error
    /\ UNCHANGED <<sup_submit, sup_jobs, sup_refused, svc_submit, svc_status, svc_error,
                   svc_consecutive_fails, svc_total_fails, svc_last_call, svc_pc>>
    /\ SupConst

SupNext ==
    \/ SupStartService /\ SupFrame
    \/ SvcBegin /\ SupFrame
    \/ SvcSubmit /\ SupFrame
    \/ SvcCountFailure /\ SupFrame
    \/ SupShutdownSwap /\ SupFrame
    \/ SupShutdownJoin /\ SupFrame
    \/ SupShutdownWait /\ SupFrame

----------------------------------------------------------------------------
(* mailbox.Group.  A name is the list of its "/"-separated pieces, so that  *)
(* "a//b" is <<"a", "", "b">>; str.split and "/".join convert between the   *)
(* two.  A Group object is its index in grp_heap; None is NoGroup.          *)

NoGroup == 0

\* The names Group is called with: a/b/c, a/b/c/d and a//b/c.
RawNames == { <<"a", "b", "c">>, <<"a", "b", "c", "d">>, <<"a", "", "b", "c">> }

\* Lines 41-42: the non-empty pieces of the name.
Canonical(raw) == SelectSeq(raw, LAMBDA piece : piece # "")

\* Line 55.
IsWildcard(parts) == parts[Len(parts)] = "..."

RECURSIVE GroupNew(_, _, _)
RECURSIVE GroupAddToPrefixes(_, _, _, _, _)

\* Lines 49-53, from index idx on: each proper prefix of the name is looked
\* up with Group(prefix), and self is added to the children of the result.
\* (self is always an object of the heap: the test makes TLC evaluate the
\* heap before the next turn of the loop.)
GroupAddToPrefixes(heap, groups, self, parts, idx) ==
    IF idx >= Len(parts) \/ self \notin DOMAIN heap
    THEN heap
    ELSE LET prefix == GroupNew(heap, groups, SubSeq(parts, 1, idx))
             added  == [prefix.heap EXCEPT ![prefix.obj].children = @ \cup {self}]
         IN  GroupAddToPrefixes(added, groups, self, parts, idx + 1)

\* Group(name): __new__ returns the object registered under the name given,
\* or else a new object; __init__ returns at once on an initialized object,
\* and else sets the fields, visits the prefixes and sets the parent to
\* Group(<name without its last piece>/...).  parts[-1] raises IndexError
\* (err) when the name has no non-empty piece.
GroupNew(heap, groups, raw) ==
    IF raw \in DOMAIN groups
    THEN [heap |-> heap, obj |-> groups[raw], err |-> FALSE]
    ELSE LET self    == Len(heap) + 1
             parts   == Canonical(raw)
             fresh   == Append(heap, [name |-> parts, parent |-> NoGroup, children |-> {}])
             visited == GroupAddToPrefixes(fresh, groups, self, parts, 1)
         IN  IF parts = <<>>
             THEN [heap |-> fresh, obj |-> self, err |-> TRUE]
             ELSE IF Len(parts) > 1 /\ ~IsWildcard(parts)
                  THEN LET up == GroupNew(visited, groups,
                                          Append(SubSeq(parts, 1, Len(parts) - 1), "..."))
                       IN  [heap |-> [up.heap EXCEPT ![self].parent = up.obj],
                            obj  |-> self,
                            err  |-> FALSE]
                  ELSE [heap |-> visited, obj |-> self, err |-> FALSE]

\* The objects a program holding the objects in `from` can reach, through
\* parent and children.
RECURSIVE Reachable(_, _)
Reachable(heap, from) ==
    LET next == from \cup {heap[g].parent : g \in from} \cup UNION {heap[g].children : g \in from}
        more == next \ {NoGroup}
    IN  IF more = from THEN from ELSE Reachable(heap, more)

\* The heap once the objects no reference leads to are gone: the objects in
\* `keep` stay, in their order, and the references to them are renumbered.
Collect(heap, keep) ==
    LET number(g) == IF g = NoGroup THEN NoGroup ELSE Cardinality({k \in keep : k <= g})
        kept(n)   == CHOOSE g \in keep : number(g) = n
    IN  [n \in 1..Cardinality(keep) |->
            [name     |-> heap[kept(n)].name,
             parent   |-> number(heap[kept(n)].parent),
             children |-> {number(c) : c \in heap[kept(n)].children}]]

\* The object Group(name) returned, as numbered by Collect.
Collected(keep, g) == Cardinality({k \in keep : k <= g})

GroupObjects == DOMAIN grp_heap


BusFrame == UNCHANGED <<barVars, semVars, rtVars, supVars, thVars, poolVars, notifVars, eventVars, queueVars, loopVars, nestVars>>

\* The mailboxes of a run; each has one consumer thread, which calls get().
Boxes == {"M", "N"}

\* The contents sent, and the data_transform functions of the extensions.
Contents == {"x"}
Transforms == {"id", "mark"}
DataTransform(f, content) == IF f = "id" THEN content ELSE "y"

\* MessageSentInGroup(), lines 17-20: the declared defaults.  (The default
\* of forward_to is written set(), which the dataclass decorator of CPython
\* refuses when the class is created; the model reads the declaration as
\* the empty set it means.)
DefaultResponse == [none |-> FALSE, cancel |-> FALSE, forward_to |-> {}, transform |-> "id"]

\* What an extension's message_sent_in_group returns: None, or a
\* MessageSentInGroup that forwards to at most one of the groups given.
Policies(objects) ==
    {[none |-> TRUE, cancel |-> FALSE, forward_to |-> {}, transform |-> "id"]} \cup
    [none : {FALSE}, cancel : BOOLEAN,
     forward_to : {{}} \cup {{g} : g \in objects}, transform : Transforms]

\* The responses that neither cancel nor transform.
ForwardPolicies(objects) ==
    {policy \in Policies(objects) :
        ~policy.none /\ ~policy.cancel /\ policy.transform = "id"}

\* The bus after import, with the mailboxes constructed (lines 24-25, 81, 136-138).
BusNew ==
    /\ grp_groups = [n \in {} |-> NoGroup]
    /\ grp_heap = <<>>
    /\ grp_made = <<>>
    /\ grp_raised = FALSE
    /\ bus_extensions = [g \in {} |-> DefaultResponse]
    /\ bus_chats = [g \in {} |-> {}]
    /\ bus_subscribed = 0
    /\ mb_messages = [m \in Boxes |-> <<>>]
    /\ mb_waiters = [m \in Boxes |-> <<>>]
    /\ mb_wlock = [m \in Boxes |-> "none"]
    /\ mb_pc = [m \in Boxes |-> "idle"]
    /\ mb_got = [m \in Boxes |-> <<>>]
    /\ mb_count = [m \in Boxes |-> 0]
    /\ bus_stack = <<>>
    /\ bus_sends = 0
    /\ bus_target = NoGroup
    /\ bus_delivered = [m \in Boxes |-> 0]
    /\ bus_quiet = TRUE
    /\ bus_error = FALSE

BusIdle == BusNew

\* The thread that builds the tables and sends is inside no send call.
BusUserReady == bus_stack = <<>>

\* g = Group(raw).  The objects the call made and did not link to g are
\* unreferenced when it returns.  Group.groups is assigned nowhere.
GroupCall(raw) ==
    /\ BusUserReady
    /\ Len(grp_made) < MaxGroups
    /\ LET made == GroupNew(grp_heap, grp_groups, raw)
           keep == GroupObjects \cup Reachable(made.heap, {made.obj})
       IN  IF made.err
           THEN /\ grp_raised' = TRUE
                /\ grp_made' = Append(grp_made, [raw |-> raw, obj |-> NoGroup])
                /\ UNCHANGED grp_heap
           ELSE /\ grp_raised' = FALSE
                /\ grp_heap' = Collect(made.heap, keep)
                /\ grp_made' = Append(grp_made, [raw |-> raw, obj |-> Collected(keep, made.obj)])
    /\ UNCHANGED <<grp_groups, bus_extensions, bus_chats, bus_subscribed, mb_messages,
                   mb_waiters, mb_wlock, mb_pc, mb_got, mb_count, bus_stack, bus_sends,
                   bus_target, bus_delivered, bus_quiet, bus_error>>

\* group.add_extension(ext): ValueError when the group has one; else it is
\* registered (and a Supervisor of its own runs its background_worker).
AddExtension(g, policy) ==
    /\ BusUserReady
    /\ Cardinality(DOMAIN bus_extensions) < MaxExtensions
    /\ g \notin DOMAIN bus_extensions
    /\ bus_extensions' = [h \in DOMAIN bus_extensions \cup {g} |->
                             IF h = g THEN policy ELSE bus_extensions[h]]
    /\ bus_quiet' = FALSE
    /\ UNCHANGED <<grp_groups, grp_heap, grp_made, grp_raised, bus_chats, bus_subscribed,
                   mb_messages, mb_waiters, mb_wlock, mb_pc, mb_got, mb_count, bus_stack,
                   bus_sends, bus_target, bus_delivered, bus_error>>

\* box.subscribe(group): chats.setdefault(group, set()).add(box).
Subscribe(m, g) ==
    /\ BusUserReady
    /\ bus_subscribed < MaxSubscriptions
    /\ bus_subscribed' = bus_subscribed + 1
    /\ bus_chats' = [h \in DOMAIN bus_chats \cup {g} |->
                        IF h = g
                        THEN (IF g \in DOMAIN bus_chats THEN bus_chats[g] ELSE {}) \cup {m}
                        ELSE bus_chats[h]]
    /\ bus_quiet' = FALSE
    /\ UNCHANGED <<grp_groups, grp_heap, grp_made, grp_raised, bus_extensions, mb_messages,
                   mb_waiters, mb_wlock, mb_pc, mb_got, mb_count, bus_stack, bus_sends,
                   bus_target, bus_delivered, bus_error>>

\* box.unsubscribe(group): chats[group].discard(box); KeyError, and no
\* change, for a group that never had a subscriber.
Unsubscribe(m, g) ==
    /\ BusUserReady
    /\ bus_subscribed < MaxSubscriptions
    /\ g \in DOMAIN bus_chats
    /\ bus_subscribed' = bus_subscribed + 1
    /\ bus_chats' = [bus_chats EXCEPT ![g] = @ \ {m}]
    /\ bus_quiet' = FALSE
    /\ UNCHANGED <<grp_groups, grp_heap, grp_made, grp_raised, bus_extensions, mb_messages,
                   mb_waiters, mb_wlock, mb_pc, mb_got, mb_count, bus_stack, bus_sends,
                   bus_target, bus_delivered, bus_error>>


\* `group in exclude`, for a list.
InList(g, list) == \E i \in 1..Len(list) : list[i] = g

\* collections.deque: appendleft, pop (from the right end), len.
DequeAppendLeft(q, x) == <<x>> \o q
DequePopLeft(q) == [item |-> q[1], q |-> SubSeq(q, 2, Len(q))]
DequePop(q) == [item |-> q[Len(q)], q |-> SubSeq(q, 1, Len(q) - 1)]

\* Lines 104-115: the response of the extension of the nearest group up the
\* parent chain that has one; the default when there is none or it returns None.
RECURSIVE NearestExtension(_, _, _)
NearestExtension(heap, extensions, g) ==
    IF g = NoGroup THEN NoGroup
    ELSE IF g \in DOMAIN extensions THEN g
    ELSE NearestExtension(heap, extensions, heap[g].parent)

SendResponse(g) ==
    LET e == NearestExtension(grp_heap, bus_extensions, g) IN
    IF e = NoGroup \/ bus_extensions[e].none THEN DefaultResponse ELSE bus_extensions[e]

\* A send whose delivery loop appends nothing.
DeliverNothing(boxes, g, content, delivered) ==
    /\ bus_delivered' = delivered
    /\ UNCHANGED <<mb_messages, mb_count, mb_waiters, mb_wlock>>

\* Lines 120-122: every subscriber of the group gets Message(group, content)
\* at the left end of its deque (numbered, per mailbox, in the order of
\* arrival), and its waiting consumer is released.
Deliver(boxes, g, content, delivered) ==
    /\ mb_messages' = [m \in Boxes |->
          IF m \in boxes
          THEN DequeAppendLeft(mb_messages[m],
                               [group |-> g, content |-> content, no |-> mb_count[m] + 1])
          ELSE mb_messages[m]]
    /\ mb_count' = [m \in Boxes |-> IF m \in boxes THEN mb_count[m] + 1 ELSE mb_count[m]]
    /\ mb_waiters' = [m \in Boxes |->
          IF m \in boxes THEN NotifyAll(mb_waiters[m]).q ELSE mb_waiters[m]]
    /\ mb_wlock' = [m \in Boxes |->
          IF m \in boxes /\ m \in NotifyAll(mb_waiters[m]).woken
          THEN "released" ELSE mb_wlock[m]]
    /\ bus_delivered' = [m \in Boxes |-> IF m \in boxes THEN delivered[m] + 1 ELSE delivered[m]]

\* A call send(g, content, exclude) made with the calls of `base` active,
\* up to the delivery of line 122: it returns at once for an excluded group
\* and for a group that never had a subscriber, and else leaves a frame
\* that goes on with the parent (line 124), or, when the response cancels,
\* with the forwards (line 133).  A call too deep ends the whole send.
BusCall(base, g, content, exclude, delivered) ==
    IF Len(base) >= MaxDepth
    THEN /\ bus_stack' = <<>>
         /\ bus_error' = TRUE
         /\ bus_delivered' = delivered
         /\ UNCHANGED <<mb_messages, mb_count, mb_waiters, mb_wlock>>
    ELSE /\ bus_error' = FALSE
         /\ IF InList(g, exclude) \/ g \notin DOMAIN bus_chats
            THEN /\ bus_stack' = base
                 /\ bus_delivered' = delivered
                 /\ UNCHANGED <<mb_messages, mb_count, mb_waiters, mb_wlock>>
            ELSE LET response == SendResponse(g)
                     changed  == DataTransform(response.transform, content)
                 IN  /\ bus_stack' = Append(base,
                            [group      |-> g,
                             content    |-> changed,
                             exclude    |-> exclude,
                             phase      |-> IF response.cancel THEN "rest" ELSE "up",
                             children   |-> IF response.cancel THEN {} ELSE grp_heap[g].children,
                             forward_to |-> response.forward_to])
                     /\ IF response.cancel
                        THEN /\ bus_delivered' = delivered
                             /\ UNCHANGED <<mb_messages, mb_count, mb_waiters, mb_wlock>>
                        ELSE Deliver(bus_chats[g], g, changed, delivered)

BusTop == bus_stack[Len(bus_stack)]
BusUnder == SubSeq(bus_stack, 1, Len(bus_stack) - 1)

\* Mailbox.send(g, content), called by the program.
BusSend(g, content) ==
    /\ BusUserReady
    /\ bus_sends' = bus_sends + 1
    /\ bus_target' = g
    /\ bus_quiet' = TRUE
    /\ BusCall(<<>>, g, content, <<>>, [m \in Boxes |-> 0])
    /\ UNCHANGED <<grp_groups, grp_heap, grp_made, grp_raised, bus_extensions, bus_chats,
                   bus_subscribed, mb_pc, mb_got>>

\* Lines 124-125: the call for the parent.
BusSendUp ==
    /\ bus_stack # <<>>
    /\ BusTop.phase = "up"
    /\ LET top  == BusTop
           base == Append(BusUnder, [top EXCEPT !.phase = "rest"])
           up   == grp_heap[top.group].parent
       IN  IF up # NoGroup /\ ~InList(up, top.exclude)
           THEN BusCall(base, up, top.content, <<top.group>> \o top.exclude, bus_delivered)
           ELSE /\ bus_stack' = base
                /\ UNCHANGED <<mb_messages, mb_count, mb_waiters, mb_wlock,
                               bus_delivered, bus_error>>
    /\ UNCHANGED <<grp_groups, grp_heap, grp_made, grp_raised, bus_extensions, bus_chats,
                   bus_subscribed, mb_pc, mb_got, bus_sends, bus_target, bus_quiet>>

\* Lines 127-134: the next call of the two loops, for a child not excluded
\* and then, with exclude = [group], for a group forwarded to.
BusSendNextCall ==
    /\ bus_stack # <<>>
    /\ BusTop.phase = "rest"
    /\ BusTop.children # {} \/ BusTop.forward_to # {}
    /\ LET top == BusTop IN
       IF top.children # {}
       THEN \E child \in top.children :
               LET base == Append(BusUnder, [top EXCEPT !.children = @ \ {child}]) IN
               IF InList(child, top.exclude)
               THEN /\ bus_stack' = base
                    /\ UNCHANGED <<mb_messages, mb_count, mb_waiters, mb_wlock,
                                   bus_delivered, bus_error>>
               ELSE BusCall(base, child, top.content, <<top.group>> \o top.exclude,
                            bus_delivered)
       ELSE \E other \in top.forward_to :
               LET base == Append(BusUnder, [top EXCEPT !.forward_to = @ \ {other}]) IN
               BusCall(base, other, top.content, <<top.group>>, bus_delivered)
    /\ UNCHANGED <<grp_groups, grp_heap, grp_made, grp_raised, bus_extensions, bus_chats,
                   bus_subscribed, mb_pc, mb_got, bus_sends, bus_target, bus_quiet>>

\* The end of send: the call returns to its caller.
BusSendReturn ==
    /\ bus_stack # <<>>
    /\ BusTop.phase = "rest"
    /\ BusTop.children = {}
    /\ BusTop.forward_to = {}
    /\ bus_stack' = BusUnder
    /\ UNCHANGED <<grp_groups, grp_heap, grp_made, grp_raised, bus_extensions, bus_chats,
                   bus_subscribed, mb_messages, mb_waiters, mb_wlock, mb_pc, mb_got,
                   mb_count, bus_sends, bus_target, bus_delivered, bus_quiet, bus_error>>

\* What get() returns, with the number of messages that were waiting and
\* the number that had arrived.
MbTake(m) ==
    /\ mb_messages' = [mb_messages EXCEPT ![m] = DequePop(@).q]
    /\ mb_got' = [mb_got EXCEPT ![m] =
          Append(@, [msg     |-> DequePop(mb_messages[m]).item,
                     backlog |-> Len(mb_messages[m]),
                     arrived |-> mb_count[m]])]

\* Mailbox.get, line 141 and, with a message waiting, line 144.
MbGetCheck(m) ==
    /\ mb_pc[m] = "idle"
    /\ IF Len(mb_messages[m]) = 0
       THEN /\ mb_pc' = [mb_pc EXCEPT ![m] = "wait"]
            /\ UNCHANGED <<mb_messages, mb_got>>
       ELSE /\ MbTake(m)
            /\ UNCHANGED mb_pc
    /\ UNCHANGED <<grp_groups, grp_heap, grp_made, grp_raised, bus_extensions, bus_chats,
                   bus_subscribed, mb_waiters, mb_wlock, mb_count, bus_stack, bus_sends,
                   bus_target, bus_delivered, bus_quiet, bus_error>>

\* Line 142, Notification.wait lines 31-34: the consumer queues its lock.
MbGetWait(m) ==
    /\ mb_pc[m] = "wait"
    /\ mb_pc' = [mb_pc EXCEPT ![m] = "block"]
    /\ mb_waiters' = [mb_waiters EXCEPT ![m] = NotifEnqueue(@, m)]
    /\ mb_wlock' = [mb_wlock EXCEPT ![m] = "held"]
    /\ UNCHANGED <<grp_groups, grp_heap, grp_made, grp_raised, bus_extensions, bus_chats,
                   bus_subscribed, mb_messages, mb_got, mb_count, bus_stack, bus_sends,
                   bus_target, bus_delivered, bus_quiet, bus_error>>

\* Notification.wait line 36, then line 144.
MbGetWake(m) ==
    /\ mb_pc[m] = "block"
    /\ NotifCanWake(mb_wlock[m])
    /\ mb_pc' = [mb_pc EXCEPT ![m] = "idle"]
    /\ mb_wlock' = [mb_wlock EXCEPT ![m] = "none"]
    /\ IF Len(mb_messages[m]) = 0
       THEN UNCHANGED <<mb_messages, mb_got>>
       ELSE MbTake(m)
    /\ UNCHANGED <<grp_groups, grp_heap, grp_made, grp_raised, bus_extensions, bus_chats,
                   bus_subscribed, mb_waiters, mb_count, bus_stack, bus_sends,
                   bus_target, bus_delivered, bus_quiet, bus_error>>

\* A program that builds the tables and then sends one message; nobody
\* reads the mailboxes.
BusBuilding == bus_sends = 0

BusNext ==
    \/ \E raw \in RawNames : BusBuilding /\ GroupCall(raw) /\ BusFrame
    \/ \E g \in GroupObjects : \E policy \in ForwardPolicies(GroupObjects) :
          BusBuilding /\ AddExtension(g, policy) /\ BusFrame
    \/ \E m \in Boxes, g \in GroupObjects : BusBuilding /\ Subscribe(m, g) /\ BusFrame
    \/ \E m \in Boxes, g \in GroupObjects : BusBuilding /\ Unsubscribe(m, g) /\ BusFrame
    \/ \E g \in GroupObjects, content \in Contents :
          BusBuilding /\ BusSend(g, content) /\ BusFrame
    \/ BusSendUp /\ BusFrame
    \/ BusSendNextCall /\ BusFrame
    \/ BusSendReturn /\ BusFrame

----------------------------------------------------------------------------
(* threads.Thread, and the Promise bound to it.  The callable either returns *)
(* a value or raises.  Every start() spawns a worker that runs               *)
(* __worker_single; callers call join() on the thread or result() on its     *)
(* promise.  The completion Event is its Lock: locked is unset.              *)

\* The workers start() can spawn, and the threads that call join / result.
ThWorkers == 1..MaxStarts
ThCallers == 1..MaxCallers

ThFrame == UNCHANGED <<barVars, semVars, rtVars, supVars, busVars, poolVars, notifVars, eventVars, queueVars, loopVars, nestVars>>

\* Event.__init__, lines 53-55: the event starts unset.
EventNew == LockAcquired

\* Event.set, line 58, and Event.clear, line 64: the tests that raise.
EventSetRaises(l) == ~l
EventClearRaises(l) == l

\* Thread.__init__, lines 39-43.
ThreadNew(fn) ==
    /\ th_fn = fn
    /\ th_status = "NOT_STARTED"
    /\ th_result = "none"
    /\ th_finished = EventNew
    /\ th_starts = 0
    /\ th_runs = 0
    /\ th_wpc = [w \in ThWorkers |-> "none"]
    /\ th_cpc = [c \in ThCallers |-> "idle"]
    /\ th_call = [c \in ThCallers |-> [kind |-> "join", started |-> FALSE, finished |-> FALSE]]
    /\ th_calls = [c \in ThCallers |-> <<>>]

ThreadIdle == ThreadNew("returns")

ThConst == UNCHANGED th_fn

\* Thread.start, lines 57-60: new_thread(self.__worker_single).
ThreadStart ==
    /\ th_starts < MaxStarts
    /\ th_starts' = th_starts + 1
    /\ th_wpc' = [th_wpc EXCEPT ![th_starts + 1] = "spawned"]
    /\ ThConst
    /\ UNCHANGED <<th_status, th_result, th_finished, th_runs, th_cpc, th_call, th_calls>>

\* __worker_single, line 46.
WorkerRunning(w) ==
    /\ th_wpc[w] = "spawned"
    /\ th_wpc' = [th_wpc EXCEPT ![w] = "call"]
    /\ th_status' = "RUNNING"
    /\ th_result' = "none"
    /\ ThConst
    /\ UNCHANGED <<th_finished, th_starts, th_runs, th_cpc, th_call, th_calls>>

\* Lines 48-53: the callable runs, and its value or its error is stored.
WorkerCall(w) ==
    /\ th_wpc[w] = "call"
    /\ th_wpc' = [th_wpc EXCEPT ![w] = "finally"]
    /\ th_runs' = th_runs + 1
    /\ th_status' = "FINISHED"
    /\ th_result' = IF th_fn = "returns" THEN "value" ELSE "error"
    /\ ThConst
    /\ UNCHANGED <<th_finished, th_starts, th_cpc, th_call, th_calls>>

\* Line 55, Event.set line 58: RuntimeError ends the worker when the event
\* is set already.
WorkerSetTest(w) ==
    /\ th_wpc[w] = "finally"
    /\ th_wpc' = [th_wpc EXCEPT ![w] = IF EventSetRaises(th_finished) THEN "raised" ELSE "release"]
    /\ ThConst
    /\ UNCHANGED <<th_status, th_result, th_finished, th_starts, th_runs, th_cpc, th_call, th_calls>>

\* Event.set, line 60.
WorkerSetRelease(w) ==
    /\ th_wpc[w] = "release"
    /\ th_wpc' = [th_wpc EXCEPT ![w] = "done"]
    /\ th_finished' = LockReleased
    /\ ThConst
    /\ UNCHANGED <<th_status, th_result, th_starts, th_runs, th_cpc, th_call, th_calls>>

\* A caller calls thread.join() (kind "join") or Promise(thread).result()
\* (kind "result", which calls join, line 221).  Thread.join lines 78-79:
\* RuntimeError while the status is NOT_STARTED.
JoinBegin(c, kind) ==
    /\ th_cpc[c] = "idle"
    /\ Len(th_calls[c]) < MaxCalls
    /\ LET call == [kind     |-> kind,
                    started  |-> th_starts > 0,
                    finished |-> th_status = "FINISHED" /\ ~th_finished]
       IN  /\ th_call' = [th_call EXCEPT ![c] = call]
           /\ IF th_status = "NOT_STARTED"
              THEN /\ th_calls' = [th_calls EXCEPT ![c] = Append(@, call @@ [out |-> "not_started"])]
                   /\ UNCHANGED th_cpc
              ELSE /\ th_cpc' = [th_cpc EXCEPT ![c] = "acquire"]
                   /\ UNCHANGED th_calls
    /\ ThConst
    /\ UNCHANGED <<th_status, th_result, th_finished, th_starts, th_runs, th_wpc>>

\* Line 81, Event.wait line 70.
JoinAcquire(c) ==
    /\ th_cpc[c] = "acquire"
    /\ LockCanAcquire(th_finished)
    /\ th_finished' = LockAcquired
    /\ th_cpc' = [th_cpc EXCEPT ![c] = "release"]
    /\ ThConst
    /\ UNCHANGED <<th_status, th_result, th_starts, th_runs, th_wpc, th_call, th_calls>>

\* Event.wait line 71.  (When a set() released the lock in between, this
\* releases a lock that is not held; the mutex is taken to stay free.)
JoinRelease(c) ==
    /\ th_cpc[c] = "release"
    /\ th_finished' = LockReleased
    /\ th_cpc' = [th_cpc EXCEPT ![c] = "read"]
    /\ ThConst
    /\ UNCHANGED <<th_status, th_result, th_starts, th_runs, th_wpc, th_call, th_calls>>

\* Thread.join line 83 with Thread.result lines 71-75: RuntimeError unless
\* finished, else the stored value (None for a callable that raised); then,
\* for Promise.result, lines 225-230: the stored error is raised.
JoinOutcome(kind) ==
    IF th_status # "FINISHED" \/ th_result = "none" THEN "not_finished"
    ELSE IF th_result = "value" THEN "value"
    ELSE IF kind = "join" THEN "None"
    ELSE "rethrown"

JoinReturn(c) ==
    /\ th_cpc[c] = "read"
    /\ th_cpc' = [th_cpc EXCEPT ![c] = "idle"]
    /\ th_calls' = [th_calls EXCEPT ![c] =
          Append(@, th_call[c] @@ [out |-> JoinOutcome(th_call[c].kind)])]
    /\ ThConst
    /\ UNCHANGED <<th_status, th_result, th_finished, th_starts, th_runs, th_wpc, th_call>>

ThNext ==
    \/ ThreadStart /\ ThFrame
    \/ \E w \in ThWorkers : WorkerRunning(w) /\ ThFrame
    \/ \E w \in ThWorkers : WorkerCall(w) /\ ThFrame
    \/ \E w \in ThWorkers : WorkerSetTest(w) /\ ThFrame
    \/ \E w \in ThWorkers : WorkerSetRelease(w) /\ ThFrame
    \/ \E c \in ThCallers, kind \in {"join", "result"} : JoinBegin(c, kind) /\ ThFrame
    \/ \E c \in ThCallers : JoinAcquire(c) /\ ThFrame
    \/ \E c \in ThCallers : JoinRelease(c) /\ ThFrame
    \/ \E c \in ThCallers : JoinReturn(c) /\ ThFrame

----------------------------------------------------------------------------
(* threads.Pool, with the promises of its tasks.  Clients call submit; one  *)
(* thread (PoolMain) calls shutdown, once; every worker runs __worker.  A    *)
(* task's callable either returns or raises.                                 *)

PoolWorkers == 1..MaxPoolWorkers
PoolClients == 1..MaxClients
PoolTasks == 1..MaxTasks

\* The thread that calls shutdown.
PoolMain == 0

PoolFrame == UNCHANGED <<barVars, semVars, rtVars, supVars, busVars, thVars, notifVars, eventVars, queueVars, loopVars, nestVars>>

\* Pool.__init__, lines 99-109, and the callers before their calls.
PoolNew ==
    /\ pl_tasks = <<>>
    /\ pl_lock = LockReleased
    /\ pl_tn = <<>>
    /\ pl_tp = <<>>
    /\ pl_wl = [t \in PoolWorkers \cup {PoolMain} |-> "none"]
    /\ pl_shutting_down = FALSE
    /\ pl_active = TRUE
    /\ pl_wpc = [w \in PoolWorkers |-> "loop"]
    /\ pl_wtask = [w \in PoolWorkers |-> 0]
    /\ pl_pfn = [p \in PoolTasks |-> "none"]
    /\ pl_pstatus = [p \in PoolTasks |-> "NOT_STARTED"]
    /\ pl_presult = [p \in PoolTasks |-> "none"]
    /\ pl_pevent = [p \in PoolTasks |-> EventNew]
    /\ pl_made = 0
    /\ pl_cpc = [c \in PoolClients |-> "idle"]
    /\ pl_ctask = [c \in PoolClients |-> 0]
    /\ pl_mpc = "idle"
    /\ pl_raised = 0
    /\ pl_late = FALSE

PoolIdle == PoolNew

\* Pool.submit, lines 162-165: RuntimeError once shutting_down is set; else
\* the promise of the task is made.
PoolSubmitTest(c, fn) ==
    /\ pl_cpc[c] = "idle"
    /\ pl_shutting_down \/ pl_made < MaxTasks
    /\ IF pl_shutting_down
       THEN /\ pl_raised' = 1
            /\ UNCHANGED <<pl_made, pl_cpc, pl_ctask, pl_pfn>>
       ELSE /\ pl_made' = pl_made + 1
            /\ pl_ctask' = [pl_ctask EXCEPT ![c] = pl_made + 1]
            /\ pl_pfn' = [pl_pfn EXCEPT ![pl_made + 1] = fn]
            /\ pl_cpc' = [pl_cpc EXCEPT ![c] = "lock"]
            /\ UNCHANGED pl_raised
    /\ UNCHANGED <<pl_tasks, pl_lock, pl_tn, pl_tp, pl_wl, pl_shutting_down, pl_active, pl_wpc,
                   pl_wtask, pl_pstatus, pl_presult, pl_pevent, pl_mpc, pl_late>>

\* Line 167: the task array lock is taken.
PoolSubmitLock(c) ==
    /\ pl_cpc[c] = "lock"
    /\ LockCanAcquire(pl_lock)
    /\ pl_lock' = LockAcquired
    /\ pl_cpc' = [pl_cpc EXCEPT ![c] = "append"]
    /\ UNCHANGED <<pl_tasks, pl_tn, pl_tp, pl_wl, pl_shutting_down, pl_active, pl_wpc, pl_wtask,
                   pl_pfn, pl_pstatus, pl_presult, pl_pevent, pl_made, pl_ctask, pl_mpc,
                   pl_raised, pl_late>>

\* Line 168, and the lock released at the end of the block.
PoolSubmitAppend(c) ==
    /\ pl_cpc[c] = "append"
    /\ pl_tasks' = Append(pl_tasks, pl_ctask[c])
    /\ pl_late' = (pl_late \/ pl_shutting_down)
    /\ pl_lock' = LockReleased
    /\ pl_cpc' = [pl_cpc EXCEPT ![c] = "notify"]
    /\ UNCHANGED <<pl_tn, pl_tp, pl_wl, pl_shutting_down, pl_active, pl_wpc, pl_wtask, pl_pfn,
                   pl_pstatus, pl_presult, pl_pevent, pl_made, pl_ctask, pl_mpc, pl_raised>>

\* Lines 170-173: notify_one on the task notification; the promise is returned.
PoolSubmitNotify(c) ==
    /\ pl_cpc[c] = "notify"
    /\ pl_tn' = NotifyOne(pl_tn).q
    /\ pl_wl' = ReleaseWaiters(pl_wl, NotifyOne(pl_tn).woken)
    /\ pl_cpc' = [pl_cpc EXCEPT ![c] = "idle"]
    /\ pl_ctask' = [pl_ctask EXCEPT ![c] = 0]
    /\ UNCHANGED <<pl_tasks, pl_lock, pl_tp, pl_shutting_down, pl_active, pl_wpc, pl_wtask,
                   pl_pfn, pl_pstatus, pl_presult, pl_pevent, pl_made, pl_mpc, pl_raised,
                   pl_late>>

\* Pool.shutdown, line 121.
PoolShutdownBegin ==
    /\ pl_mpc = "idle"
    /\ pl_mpc' = "test"
    /\ pl_shutting_down' = TRUE
    /\ UNCHANGED <<pl_tasks, pl_lock, pl_tn, pl_tp, pl_wl, pl_active, pl_wpc, pl_wtask, pl_pfn,
                   pl_pstatus, pl_presult, pl_pevent, pl_made, pl_cpc, pl_ctask, pl_raised,
                   pl_late>>

\* Lines 123-126: while tasks are queued, wait for a task to be processed;
\* then active = False.
PoolShutdownTest ==
    /\ pl_mpc = "test"
    /\ IF Len(pl_tasks) > 0
       THEN /\ pl_mpc' = "wait"
            /\ UNCHANGED pl_active
       ELSE /\ pl_mpc' = "done"
            /\ pl_active' = FALSE
    /\ UNCHANGED <<pl_tasks, pl_lock, pl_tn, pl_tp, pl_wl, pl_shutting_down, pl_wpc, pl_wtask,
                   pl_pfn, pl_pstatus, pl_presult, pl_pevent, pl_made, pl_cpc, pl_ctask,
                   pl_raised, pl_late>>

\* Line 124, Notification.wait lines 31-34.
PoolShutdownWait ==
    /\ pl_mpc = "wait"
    /\ pl_mpc' = "block"
    /\ pl_tp' = NotifEnqueue(pl_tp, PoolMain)
    /\ pl_wl' = [pl_wl EXCEPT ![PoolMain] = "held"]
    /\ UNCHANGED <<pl_tasks, pl_lock, pl_tn, pl_shutting_down, pl_active, pl_wpc, pl_wtask,
                   pl_pfn, pl_pstatus, pl_presult, pl_pevent, pl_made, pl_cpc, pl_ctask,
                   pl_raised, pl_late>>

\* Notification.wait line 36.
PoolShutdownWake ==
    /\ pl_mpc = "block"
    /\ NotifCanWake(pl_wl[PoolMain])
    /\ pl_mpc' = "test"
    /\ pl_wl' = [pl_wl EXCEPT ![PoolMain] = "none"]
    /\ UNCHANGED <<pl_tasks, pl_lock, pl_tn, pl_tp, pl_shutting_down, pl_active, pl_wpc,
                   pl_wtask, pl_pfn, pl_pstatus, pl_presult, pl_pevent, pl_made, pl_cpc,
                   pl_ctask, pl_raised, pl_late>>

\* Pool.__worker, lines 129-133: the loop test, the worker's slot cleared,
\* and the choice between waiting for a task and going for the lock.
PoolWorkerLoop(w) ==
    /\ pl_wpc[w] = "loop"
    /\ IF ~pl_active
       THEN /\ pl_wpc' = [pl_wpc EXCEPT ![w] = "exit"]
            /\ UNCHANGED pl_wtask
       ELSE /\ pl_wtask' = [pl_wtask EXCEPT ![w] = 0]
            /\ pl_wpc' = [pl_wpc EXCEPT ![w] =
                  IF Len(pl_tasks) = 0 /\ ~pl_lock THEN "wait" ELSE "lock"]
    /\ UNCHANGED <<pl_tasks, pl_lock, pl_tn, pl_tp, pl_wl, pl_shutting_down, pl_active, pl_pfn,
                   pl_pstatus, pl_presult, pl_pevent, pl_made, pl_cpc, pl_ctask, pl_mpc,
                   pl_raised, pl_late>>

\* Line 133, Notification.wait lines 31-34.
PoolWorkerWait(w) ==
    /\ pl_wpc[w] = "wait"
    /\ pl_wpc' = [pl_wpc EXCEPT ![w] = "block"]
    /\ pl_tn' = NotifEnqueue(pl_tn, w)
    /\ pl_wl' = [pl_wl EXCEPT ![w] = "held"]
    /\ UNCHANGED <<pl_tasks, pl_lock, pl_tp, pl_shutting_down, pl_active, pl_wtask, pl_pfn,
                   pl_pstatus, pl_presult, pl_pevent, pl_made, pl_cpc, pl_ctask, pl_mpc,
                   pl_raised, pl_late>>

\* Notification.wait line 36.
PoolWorkerWake(w) ==
    /\ pl_wpc[w] = "block"
    /\ NotifCanWake(pl_wl[w])
    /\ pl_wpc' = [pl_wpc EXCEPT ![w] = "lock"]
    /\ pl_wl' = [pl_wl EXCEPT ![w] = "none"]
    /\ UNCHANGED <<pl_tasks, pl_lock, pl_tn, pl_tp, pl_shutting_down, pl_active, pl_wtask,
                   pl_pfn, pl_pstatus, pl_presult, pl_pevent, pl_made, pl_cpc, pl_ctask,
                   pl_mpc, pl_raised, pl_late>>

\* Line 137: the task array lock is taken.
PoolWorkerLock(w) ==
    /\ pl_wpc[w] = "lock"
    /\ LockCanAcquire(pl_lock)
    /\ pl_lock' = LockAcquired
    /\ pl_wpc' = [pl_wpc EXCEPT ![w] = "pop"]
    /\ UNCHANGED <<pl_tasks, pl_tn, pl_tp, pl_wl, pl_shutting_down, pl_active, pl_wtask, pl_pfn,
                   pl_pstatus, pl_presult, pl_pevent, pl_made, pl_cpc, pl_ctask, pl_mpc,
                   pl_raised, pl_late>>

\* Lines 138-141: popleft, or on an empty deque the next turn of the loop;
\* the lock is released at the end of the block.
PoolWorkerPop(w) ==
    /\ pl_wpc[w] = "pop"
    /\ pl_lock' = LockReleased
    /\ IF Len(pl_tasks) = 0
       THEN /\ pl_wpc' = [pl_wpc EXCEPT ![w] = "loop"]
            /\ UNCHANGED <<pl_tasks, pl_wtask>>
       ELSE /\ pl_wpc' = [pl_wpc EXCEPT ![w] = "run"]
            /\ pl_tasks' = Tail(pl_tasks)
            /\ pl_wtask' = [pl_wtask EXCEPT ![w] = Head(pl_tasks)]
    /\ UNCHANGED <<pl_tn, pl_tp, pl_wl, pl_shutting_down, pl_active, pl_pfn, pl_pstatus,
                   pl_presult, pl_pevent, pl_made, pl_cpc, pl_ctask, pl_mpc, pl_raised,
                   pl_late>>

\* Lines 145-148: the promise is updated to RUNNING (Promise._update).
PoolWorkerRun(w) ==
    /\ pl_wpc[w] = "run"
    /\ pl_wpc' = [pl_wpc EXCEPT ![w] = "call"]
    /\ pl_pstatus' = [pl_pstatus EXCEPT ![pl_wtask[w]] = "RUNNING"]
    /\ pl_presult' = [pl_presult EXCEPT ![pl_wtask[w]] = "none"]
    /\ UNCHANGED <<pl_tasks, pl_lock, pl_tn, pl_tp, pl_wl, pl_shutting_down, pl_active,
                   pl_wtask, pl_pfn, pl_pevent, pl_made, pl_cpc, pl_ctask, pl_mpc, pl_raised,
                   pl_late>>

\* Lines 150-155: the callable runs; the promise is updated to FINISHED with
\* the value or the error, and its event is set (Promise._update 214-217).
PoolWorkerCall(w) ==
    /\ pl_wpc[w] = "call"
    /\ pl_wpc' = [pl_wpc EXCEPT ![w] = "notify"]
    /\ pl_pstatus' = [pl_pstatus EXCEPT ![pl_wtask[w]] = "FINISHED"]
    /\ pl_presult' = [pl_presult EXCEPT ![pl_wtask[w]] =
          IF pl_pfn[pl_wtask[w]] = "returns" THEN "value" ELSE "error"]
    /\ pl_pevent' = [pl_pevent EXCEPT ![pl_wtask[w]] = LockReleased]
    /\ UNCHANGED <<pl_tasks, pl_lock, pl_tn, pl_tp, pl_wl, pl_shutting_down, pl_active,
                   pl_wtask, pl_pfn, pl_made, pl_cpc, pl_ctask, pl_mpc, pl_raised, pl_late>>

\* Lines 156-157: notify_all on the notification shutdown waits on.
PoolWorkerNotify(w) ==
    /\ pl_wpc[w] = "notify"
    /\ pl_wpc' = [pl_wpc EXCEPT ![w] = "loop"]
    /\ pl_tp' = NotifyAll(pl_tp).q
    /\ pl_wl' = ReleaseWaiters(pl_wl, NotifyAll(pl_tp).woken)
    /\ UNCHANGED <<pl_tasks, pl_lock, pl_tn, pl_shutting_down, pl_active, pl_wtask, pl_pfn,
                   pl_pstatus, pl_presult, pl_pevent, pl_made, pl_cpc, pl_ctask, pl_mpc,
                   pl_raised, pl_late>>

PoolNext ==
    \/ \E c \in PoolClients, fn \in {"returns", "raises"} : PoolSubmitTest(c, fn) /\ PoolFrame
    \/ \E c \in PoolClients : PoolSubmitLock(c) /\ PoolFrame
    \/ \E c \in PoolClients : PoolSubmitAppend(c) /\ PoolFrame
    \/ \E c \in PoolClients : PoolSubmitNotify(c) /\ PoolFrame
    \/ PoolShutdownBegin /\ PoolFrame
    \/ PoolShutdownTest /\ PoolFrame
    \/ PoolShutdownWait /\ PoolFrame
    \/ PoolShutdownWake /\ PoolFrame
    \/ \E w \in PoolWorkers : PoolWorkerLoop(w) /\ PoolFrame
    \/ \E w \in PoolWorkers : PoolWorkerWait(w) /\ PoolFrame
    \/ \E w \in PoolWorkers : PoolWorkerWake(w) /\ PoolFrame
    \/ \E w \in PoolWorkers : PoolWorkerLock(w) /\ PoolFrame
    \/ \E w \in PoolWorkers : PoolWorkerPop(w) /\ PoolFrame
    \/ \E w \in PoolWorkers : PoolWorkerRun(w) /\ PoolFrame
    \/ \E w \in PoolWorkers : PoolWorkerCall(w) /\ PoolFrame
    \/ \E w \in PoolWorkers : PoolWorkerNotify(w) /\ PoolFrame

----------------------------------------------------------------------------
(* sync.Notification on its own: threads call wait, and a notifier calls   *)
(* notify(count).                                                           *)

NotifThreads == 1..MaxThreads

NotifFrame == UNCHANGED <<barVars, semVars, rtVars, supVars, busVars, thVars, poolVars, eventVars, queueVars, loopVars, nestVars>>

\* Notification.__init__, lines 27-28; no call made yet.
NotificationNew ==
    /\ nf_waiters = <<>>
    /\ nf_wl = [t \in NotifThreads |-> "none"]
    /\ nf_pc = [t \in NotifThreads |-> "idle"]
    /\ nf_last = [count |-> 0, before |-> <<>>, woken |-> {}, err |-> FALSE]
    /\ nf_notifies = 0

NotificationIdle == NotificationNew

\* Notification.wait, lines 31-34.
NotifWait(t) ==
    /\ nf_pc[t] = "idle"
    /\ nf_pc' = [nf_pc EXCEPT ![t] = "block"]
    /\ nf_waiters' = NotifEnqueue(nf_waiters, t)
    /\ nf_wl' = [nf_wl EXCEPT ![t] = "held"]
    /\ UNCHANGED <<nf_last, nf_notifies>>

\* Notification.wait, line 36.
NotifWake(t) ==
    /\ nf_pc[t] = "block"
    /\ NotifCanWake(nf_wl[t])
    /\ nf_pc' = [nf_pc EXCEPT ![t] = "idle"]
    /\ nf_wl' = [nf_wl EXCEPT ![t] = "none"]
    /\ UNCHANGED <<nf_waiters, nf_last, nf_notifies>>

\* Notification.notify(count), lines 38-43.
NotifNotify(count) ==
    /\ nf_notifies < MaxNotifies
    /\ nf_notifies' = nf_notifies + 1
    /\ nf_waiters' = Notify(nf_waiters, count).q
    /\ nf_wl' = ReleaseWaiters(nf_wl, Notify(nf_waiters, count).woken)
    /\ nf_last' = [count  |-> count,
                   before |-> nf_waiters,
                   woken  |-> Notify(nf_waiters, count).woken,
                   err    |-> Notify(nf_waiters, count).err]
    /\ UNCHANGED nf_pc

NotifNext ==
    \/ \E t \in NotifThreads : NotifWait(t) /\ NotifFrame
    \/ \E t \in NotifThreads : NotifWake(t) /\ NotifFrame
    \/ \E count \in 0..MaxCount : NotifNotify(count) /\ NotifFrame

----------------------------------------------------------------------------
(* sync.Event on its own: threads call set, clear and wait.  The lock of    *)
(* the event is held while the event is unset.                              *)

EventThreads == 1..MaxCallers

EventFrame == UNCHANGED <<barVars, semVars, rtVars, supVars, busVars, thVars, poolVars, notifVars, queueVars, loopVars, nestVars>>

\* No call in progress, and the event as Event.__init__ leaves it.
EventIdle ==
    /\ ev_lock = EventNew
    /\ ev_pc = [t \in EventThreads |-> "idle"]
    /\ ev_sets = 0
    /\ ev_ops = 0
    /\ ev_raised = [t \in EventThreads |-> "none"]
    /\ ev_seen = [t \in EventThreads |-> 0]

\* A call begins: the thread is not inside another, and calls are left.
EventBegin(t) ==
    /\ ev_pc[t] = "idle"
    /\ ev_ops < MaxOps
    /\ ev_ops' = ev_ops + 1

\* Event.set, lines 57-58: RuntimeError when the lock is not locked.
EventSetTest(t) ==
    /\ EventBegin(t)
    /\ IF EventSetRaises(ev_lock)
       THEN /\ ev_raised' = [ev_raised EXCEPT ![t] = "set"]
            /\ UNCHANGED <<ev_pc, ev_seen>>
       ELSE /\ ev_raised' = [ev_raised EXCEPT ![t] = "none"]
            /\ ev_pc' = [ev_pc EXCEPT ![t] = "set"]
            /\ ev_seen' = [ev_seen EXCEPT ![t] = ev_sets]
    /\ UNCHANGED <<ev_lock, ev_sets>>

\* Event.set, line 60: the lock is released and set returns.
EventSetRelease(t) ==
    /\ ev_pc[t] = "set"
    /\ ev_lock' = LockReleased
    /\ ev_sets' = ev_sets + 1
    /\ ev_pc' = [ev_pc EXCEPT ![t] = "idle"]
    /\ UNCHANGED <<ev_ops, ev_raised, ev_seen>>

\* Event.clear, lines 63-64: RuntimeError when the lock is locked.
EventClearTest(t) ==
    /\ EventBegin(t)
    /\ IF EventClearRaises(ev_lock)
       THEN /\ ev_raised' = [ev_raised EXCEPT ![t] = "clear"]
            /\ UNCHANGED ev_pc
       ELSE /\ ev_raised' = [ev_raised EXCEPT ![t] = "none"]
            /\ ev_pc' = [ev_pc EXCEPT ![t] = "clear"]
    /\ UNCHANGED <<ev_lock, ev_sets, ev_seen>>

\* Event.clear, line 66: the lock is acquired and clear returns.
EventClearAcquire(t) ==
    /\ ev_pc[t] = "clear"
    /\ LockCanAcquire(ev_lock)
    /\ ev_lock' = LockAcquired
    /\ ev_sets' = 0
    /\ ev_pc' = [ev_pc EXCEPT ![t] = "idle"]
    /\ UNCHANGED <<ev_ops, ev_raised, ev_seen>>

\* Event.wait, line 69: the lock is acquired, which blocks while it is held.
EventWaitAcquire(t) ==
    /\ EventBegin(t)
    /\ LockCanAcquire(ev_lock)
    /\ ev_lock' = LockAcquired
    /\ ev_pc' = [ev_pc EXCEPT ![t] = "wait"]
    /\ ev_raised' = [ev_raised EXCEPT ![t] = "none"]
    /\ UNCHANGED <<ev_sets, ev_seen>>

\* Event.wait, line 70: the lock is released and wait returns.
EventWaitRelease(t) ==
    /\ ev_pc[t] = "wait"
    /\ ev_lock' = LockReleased
    /\ ev_pc' = [ev_pc EXCEPT ![t] = "idle"]
    /\ UNCHANGED <<ev_sets, ev_ops, ev_raised, ev_seen>>

EventNext ==
    \/ \E t \in EventThreads : EventSetTest(t) /\ EventFrame
    \/ \E t \in EventThreads : EventSetRelease(t) /\ EventFrame
    \/ \E t \in EventThreads : EventClearTest(t) /\ EventFrame
    \/ \E t \in EventThreads : EventClearAcquire(t) /\ EventFrame
    \/ \E t \in EventThreads : EventWaitAcquire(t) /\ EventFrame
    \/ \E t \in EventThreads : EventWaitRelease(t) /\ EventFrame

----------------------------------------------------------------------------
(* sync.Queue: threads call add and pop.  The items added are numbered in   *)
(* the order in which their add calls began.                                *)

QueueThreads == 1..MaxCallers

QueueFrame ==
    UNCHANGED <<barVars, semVars, rtVars, supVars, busVars, thVars, poolVars, notifVars, eventVars,
                loopVars, nestVars>>

\* deque(maxlen).append: on a full deque the item at the left end is discarded.
DequeAppendBounded(q, maxlen, item) ==
    IF Len(q) = maxlen THEN Append(Tail(q), item) ELSE Append(q, item)

\* Queue.__init__, lines 190-199; no call made yet.
QueueNew(max_size, overflow_behavior) ==
    /\ q_inner = <<>>
    /\ q_maxlen = max_size
    /\ q_overflow_behavior = overflow_behavior
    /\ q_lock = LockReleased
    /\ q_added = <<>>
    /\ q_popped = <<>>
    /\ q_wl = [t \in QueueThreads |-> "none"]
    /\ q_pc = [t \in QueueThreads |-> "idle"]
    /\ q_item = [t \in QueueThreads |-> 0]
    /\ q_adds = 0
    /\ q_pops = 0
    /\ q_since = [t \in QueueThreads |-> 0]
    /\ q_last = [full |-> FALSE, pops |-> 0, before |-> <<>>, after |-> <<>>]
    /\ q_error = [t \in QueueThreads |-> "none"]

QueueIdle == QueueNew(1, "RAISE")

QConst == UNCHANGED <<q_maxlen, q_overflow_behavior>>

\* Queue.add, line 202: the lock of the queue is taken.
QueueAddLock(t) ==
    /\ q_pc[t] = "idle"
    /\ q_adds < MaxAdds
    /\ LockCanAcquire(q_lock)
    /\ q_lock' = LockAcquired
    /\ q_adds' = q_adds + 1
    /\ q_item' = [q_item EXCEPT ![t] = q_adds + 1]
    /\ q_pc' = [q_pc EXCEPT ![t] = "add_test"]
    /\ q_error' = [q_error EXCEPT ![t] = "none"]
    /\ UNCHANGED <<q_inner, q_added, q_popped, q_wl, q_pops, q_since, q_last>>
    /\ QConst

\* Lines 203-213: on a full queue BLOCK waits, RAISE raises ValueError (and the
\* lock is released on the way out), any other policy passes.
QueueAddTest(t) ==
    /\ q_pc[t] = "add_test"
    /\ q_since' = [q_since EXCEPT ![t] = 0]
    /\ q_last' = [full |-> Len(q_inner) = q_maxlen, pops |-> 0, before |-> q_inner, after |-> q_inner]
    /\ IF Len(q_inner) = q_maxlen /\ q_overflow_behavior = "BLOCK"
       THEN /\ q_pc' = [q_pc EXCEPT ![t] = "add_wait"]
            /\ UNCHANGED <<q_lock, q_error>>
       ELSE IF Len(q_inner) = q_maxlen /\ q_overflow_behavior = "RAISE"
       THEN /\ q_pc' = [q_pc EXCEPT ![t] = "idle"]
            /\ q_error' = [q_error EXCEPT ![t] = "ValueError"]
            /\ q_lock' = LockReleased
       ELSE /\ q_pc' = [q_pc EXCEPT ![t] = "add_append"]
            /\ UNCHANGED <<q_lock, q_error>>
    /\ UNCHANGED <<q_inner, q_added, q_popped, q_wl, q_item, q_adds, q_pops>>
    /\ QConst

\* Line 206, Notification.wait lines 31-34.
QueueAddWait(t) ==
    /\ q_pc[t] = "add_wait"
    /\ q_pc' = [q_pc EXCEPT ![t] = "add_block"]
    /\ q_popped' = NotifEnqueue(q_popped, t)
    /\ q_wl' = [q_wl EXCEPT ![t] = "held"]
    /\ UNCHANGED <<q_inner, q_lock, q_added, q_item, q_adds, q_pops, q_since, q_last, q_error>>
    /\ QConst

\* Notification.wait line 36.
QueueAddWake(t) ==
    /\ q_pc[t] = "add_block"
    /\ NotifCanWake(q_wl[t])
    /\ q_pc' = [q_pc EXCEPT ![t] = "add_append"]
    /\ q_wl' = [q_wl EXCEPT ![t] = "none"]
    /\ UNCHANGED <<q_inner, q_lock, q_added, q_popped, q_item, q_adds, q_pops, q_since, q_last,
                   q_error>>
    /\ QConst

\* Line 214.
QueueAddAppend(t) ==
    /\ q_pc[t] = "add_append"
    /\ q_pc' = [q_pc EXCEPT ![t] = "add_notify"]
    /\ q_inner' = DequeAppendBounded(q_inner, q_maxlen, q_item[t])
    /\ q_last' = [q_last EXCEPT !.pops = q_since[t],
                                !.after = DequeAppendBounded(q_inner, q_maxlen, q_item[t])]
    /\ UNCHANGED <<q_lock, q_added, q_popped, q_wl, q_item, q_adds, q_pops, q_since, q_error>>
    /\ QConst

\* Line 216, and the lock released at the end of the block.
QueueAddNotify(t) ==
    /\ q_pc[t] = "add_notify"
    /\ q_pc' = [q_pc EXCEPT ![t] = "idle"]
    /\ q_added' = NotifyOne(q_added).q
    /\ q_wl' = ReleaseWaiters(q_wl, NotifyOne(q_added).woken)
    /\ q_lock' = LockReleased
    /\ UNCHANGED <<q_inner, q_popped, q_item, q_adds, q_pops, q_since, q_last, q_error>>
    /\ QConst

\* Queue.pop, line 219.
QueuePopTest(t) ==
    /\ q_pc[t] = "idle"
    /\ q_pops < MaxPops
    /\ q_pops' = q_pops + 1
    /\ q_pc' = [q_pc EXCEPT ![t] = IF Len(q_inner) = 0 THEN "pop_wait" ELSE "pop_left"]
    /\ q_error' = [q_error EXCEPT ![t] = "none"]
    /\ UNCHANGED <<q_inner, q_lock, q_added, q_popped, q_wl, q_item, q_adds, q_since, q_last>>
    /\ QConst

\* Line 220, Notification.wait lines 31-34.
QueuePopWait(t) ==
    /\ q_pc[t] = "pop_wait"
    /\ q_pc' = [q_pc EXCEPT ![t] = "pop_block"]
    /\ q_added' = NotifEnqueue(q_added, t)
    /\ q_wl' = [q_wl EXCEPT ![t] = "held"]
    /\ UNCHANGED <<q_inner, q_lock, q_popped, q_item, q_adds, q_pops, q_since, q_last, q_error>>
    /\ QConst

\* Notification.wait line 36.
QueuePopWake(t) ==
    /\ q_pc[t] = "pop_block"
    /\ NotifCanWake(q_wl[t])
    /\ q_pc' = [q_pc EXCEPT ![t] = "pop_left"]
    /\ q_wl' = [q_wl EXCEPT ![t] = "none"]
    /\ UNCHANGED <<q_inner, q_lock, q_added, q_popped, q_item, q_adds, q_pops, q_since, q_last,
                   q_error>>
    /\ QConst

\* Line 222: popleft, which raises IndexError on an empty deque.
QueuePopLeft(t) ==
    /\ q_pc[t] = "pop_left"
    /\ IF Len(q_inner) = 0
       THEN /\ q_pc' = [q_pc EXCEPT ![t] = "idle"]
            /\ q_error' = [q_error EXCEPT ![t] = "IndexError"]
            /\ UNCHANGED <<q_inner, q_since>>
       ELSE /\ q_pc' = [q_pc EXCEPT ![t] = "pop_notify"]
            /\ q_inner' = Tail(q_inner)
            /\ q_since' = [u \in QueueThreads |-> q_since[u] + 1]
            /\ UNCHANGED q_error
    /\ UNCHANGED <<q_lock, q_added, q_popped, q_wl, q_item, q_adds, q_pops, q_last>>
    /\ QConst

\* Lines 224-226.
QueuePopNotify(t) ==
    /\ q_pc[t] = "pop_notify"
    /\ q_pc' = [q_pc EXCEPT ![t] = "idle"]
    /\ q_popped' = NotifyOne(q_popped).q
    /\ q_wl' = ReleaseWaiters(q_wl, NotifyOne(q_popped).woken)
    /\ UNCHANGED <<q_inner, q_lock, q_added, q_item, q_adds, q_pops, q_since, q_last, q_error>>
    /\ QConst

QueueNext ==
    \/ \E t \in QueueThreads : QueueAddLock(t) /\ QueueFrame
    \/ \E t \in QueueThreads : QueueAddTest(t) /\ QueueFrame
    \/ \E t \in QueueThreads : QueueAddWait(t) /\ QueueFrame
    \/ \E t \in QueueThreads : QueueAddWake(t) /\ QueueFrame
    \/ \E t \in QueueThreads : QueueAddAppend(t) /\ QueueFrame
    \/ \E t \in QueueThreads : QueueAddNotify(t) /\ QueueFrame
    \/ \E t \in QueueThreads : QueuePopTest(t) /\ QueueFrame
    \/ \E t \in QueueThreads : QueuePopWait(t) /\ QueueFrame
    \/ \E t \in QueueThreads : QueuePopWake(t) /\ QueueFrame
    \/ \E t \in QueueThreads : QueuePopLeft(t) /\ QueueFrame
    \/ \E t \in QueueThreads : QueuePopNotify(t) /\ QueueFrame

----------------------------------------------------------------------------
(* jobs.Loop around a jobs.Retry, run with submit_global:                   *)
(*     Loop(Retry(fn, None, cons, total)).promise(submit_global, *args)     *)
(* with no argument, or with one argument.                                  *)

LoopFrame ==
    UNCHANGED <<barVars, semVars, rtVars, supVars, busVars, thVars, poolVars, notifVars,
                eventVars, queueVars, nestVars>>

\* The Retry (lines 99-101) and the thread of Loop.promise's run (line 200).
LoopNew(cons, total, args) ==
    /\ lp_args = args
    /\ lp_max_fails_total = RetryMaxFailsTotal(cons, total)
    /\ lp_max_consecutive_fails = RetryMaxConsecutiveFails(cons, total)
    /\ lp_status = "NOT_STARTED"
    /\ lp_error = "none"
    /\ lp_pc = "try"
    /\ lp_consecutive_fails = 0
    /\ lp_total_fails = 0
    /\ lp_turns = 0
    /\ lp_failed = 0

LoopIdle == LoopNew(0, 0, "none")

LoopConst == UNCHANGED <<lp_args, lp_max_fails_total, lp_max_consecutive_fails>>

\* The thread of run starts (threads.py 46).
LoopBegin ==
    /\ lp_status = "NOT_STARTED"
    /\ lp_status' = "RUNNING"
    /\ UNCHANGED <<lp_error, lp_pc, lp_consecutive_fails, lp_total_fails, lp_turns, lp_failed>>
    /\ LoopConst

\* What submit_global(*args) does (threads.py 248-254): without an argument
\* the required `function` is missing (TypeError); with one, a thread is
\* started that calls the argument, and its promise is returned.
SubmitGlobal(args) == IF args = "none" THEN "TypeError" ELSE "promise"

\* loop_generator, lines 149-151: submit(*args, **kwargs) inside the try; the
\* promise it returns is yielded to run.
LoopSubmit ==
    /\ lp_status = "RUNNING"
    /\ lp_pc = "try"
    /\ lp_turns < MaxTurns
    /\ lp_turns' = lp_turns + 1
    /\ IF SubmitGlobal(lp_args) = "promise"
       THEN /\ lp_pc' = "result"
            /\ UNCHANGED <<lp_error, lp_failed>>
       ELSE /\ lp_pc' = "except"
            /\ lp_error' = SubmitGlobal(lp_args)
            /\ lp_failed' = lp_failed + 1
    /\ UNCHANGED <<lp_status, lp_consecutive_fails, lp_total_fails>>
    /\ LoopConst

\* Loop.promise's run, lines 194-195: promise.result() in the body of the
\* for loop.  The thread returned a value ("value": the generator goes on
\* after its yield, line 152), or it raised ("error"), or it has not yet
\* marked itself RUNNING ("not_started": Thread.join raises RuntimeError,
\* threads.py 78-79); the exception leaves run, outside the generator's try.
LoopResult(outcome) ==
    /\ lp_status = "RUNNING"
    /\ lp_pc = "result"
    /\ IF outcome = "value"
       THEN /\ lp_pc' = "try"
            /\ lp_consecutive_fails' = 0
            /\ UNCHANGED <<lp_status, lp_error, lp_failed>>
       ELSE /\ lp_status' = "FINISHED"
            /\ lp_error' = (IF outcome = "error" THEN "Exception" ELSE "RuntimeError")
            /\ lp_failed' = lp_failed + 1
            /\ UNCHANGED <<lp_pc, lp_consecutive_fails>>
    /\ UNCHANGED <<lp_total_fails, lp_turns>>
    /\ LoopConst

\* loop_generator, lines 153-164 (no crash manager): the failure is counted,
\* and the generator raises it, which ends run, or goes round again.
LoopCountFailure ==
    /\ lp_status = "RUNNING"
    /\ lp_pc = "except"
    /\ lp_consecutive_fails' = CountUp(lp_consecutive_fails)
    /\ lp_total_fails' = CountUp(lp_total_fails)
    /\ IF RetryEscalates(lp_consecutive_fails + 1, lp_total_fails + 1,
                         lp_max_consecutive_fails, lp_max_fails_total)
       THEN /\ lp_status' = "FINISHED"
            /\ UNCHANGED <<lp_pc, lp_error>>
       ELSE /\ lp_pc' = "try"
            /\ UNCHANGED <<lp_status, lp_error>>
    /\ UNCHANGED <<lp_turns, lp_failed>>
    /\ LoopConst

LoopNext ==
    \/ LoopBegin /\ LoopFrame
    \/ LoopSubmit /\ LoopFrame
    \/ \E outcome \in {"value", "error", "not_started"} : LoopResult(outcome) /\ LoopFrame
    \/ LoopCountFailure /\ LoopFrame

----------------------------------------------------------------------------
(* jobs.Supervisor(pool_workers) with a Pool of its own: start_service      *)
(* submits the service's wrapper (the run of Loop(Once(fn)), or the run of  *)
(* Once(fn, crash_manager) with a failing fn) to the pool; the wrapper, on  *)
(* a worker, submits the nested job (the run of the inner Once, or of the   *)
(* crash manager) to the same pool and waits for its promise.               *)

NestFrame ==
    UNCHANGED <<barVars, semVars, rtVars, supVars, busVars, thVars, notifVars, eventVars,
                queueVars, loopVars>>

\* No service on a pool.
NestIdle ==
    /\ ns_inner = [w \in PoolWorkers |-> 0]
    /\ ns_kind = "none"

\* Supervisor(workers), jobs.py 9-18 with Pool.__init__, threads.py 99-109:
\* the workers of PoolWorkers above `workers` do not exist.
NestNew(workers, kind) ==
    /\ ns_inner = [w \in PoolWorkers |-> 0]
    /\ ns_kind = kind
    /\ pl_tasks = <<>>
    /\ pl_lock = LockReleased
    /\ pl_tn = <<>>
    /\ pl_tp = <<>>
    /\ pl_wl = [t \in PoolWorkers \cup {PoolMain} |-> "none"]
    /\ pl_shutting_down = FALSE
    /\ pl_active = TRUE
    /\ pl_wpc = [w \in PoolWorkers |-> IF w <= workers THEN "loop" ELSE "absent"]
    /\ pl_wtask = [w \in PoolWorkers |-> 0]
    /\ pl_pfn = [p \in PoolTasks |-> "none"]
    /\ pl_pstatus = [p \in PoolTasks |-> "NOT_STARTED"]
    /\ pl_presult = [p \in PoolTasks |-> "none"]
    /\ pl_pevent = [p \in PoolTasks |-> EventNew]
    /\ pl_made = 0
    /\ pl_cpc = [c \in PoolClients |-> "idle"]
    /\ pl_ctask = [c \in PoolClients |-> 0]
    /\ pl_mpc = "idle"
    /\ pl_raised = 0
    /\ pl_late = FALSE

\* The worker w runs a wrapper.
NestRunsWrapper(w) == pl_wtask[w] # 0 /\ pl_pfn[pl_wtask[w]] = "wrapper"

\* The wrapper calls job.promise(submit, ...), which ends in submit(run):
\* Pool.submit lines 162-165 (jobs.py 81 and 87, 197-198).  fn is what the
\* nested job's function does.
NestSubmitTest(w, fn) ==
    /\ pl_wpc[w] = "call"
    /\ NestRunsWrapper(w)
    /\ pl_made < MaxTasks
    /\ ~pl_shutting_down
    /\ pl_made' = pl_made + 1
    /\ ns_inner' = [ns_inner EXCEPT ![w] = pl_made + 1]
    /\ pl_pfn' = [pl_pfn EXCEPT ![pl_made + 1] = fn]
    /\ pl_wpc' = [pl_wpc EXCEPT ![w] = "n_lock"]
    /\ UNCHANGED <<pl_tasks, pl_lock, pl_tn, pl_tp, pl_wl, pl_shutting_down, pl_active,
                   pl_wtask, pl_pstatus, pl_presult, pl_pevent, pl_cpc, pl_ctask, pl_mpc,
                   pl_raised, pl_late, ns_kind>>

\* Pool.submit line 167.
NestSubmitLock(w) ==
    /\ pl_wpc[w] = "n_lock"
    /\ LockCanAcquire(pl_lock)
    /\ pl_lock' = LockAcquired
    /\ pl_wpc' = [pl_wpc EXCEPT ![w] = "n_append"]
    /\ UNCHANGED <<pl_tasks, pl_tn, pl_tp, pl_wl, pl_shutting_down, pl_active, pl_wtask, pl_pfn,
                   pl_pstatus, pl_presult, pl_pevent, pl_made, pl_cpc, pl_ctask, pl_mpc,
                   pl_raised, pl_late, ns_inner, ns_kind>>

\* Pool.submit line 168, and the lock released at the end of the block.
NestSubmitAppend(w) ==
    /\ pl_wpc[w] = "n_append"
    /\ pl_tasks' = Append(pl_tasks, ns_inner[w])
    /\ pl_lock' = LockReleased
    /\ pl_wpc' = [pl_wpc EXCEPT ![w] = "n_notify"]
    /\ UNCHANGED <<pl_tn, pl_tp, pl_wl, pl_shutting_down, pl_active, pl_wtask, pl_pfn,
                   pl_pstatus, pl_presult, pl_pevent, pl_made, pl_cpc, pl_ctask, pl_mpc,
                   pl_raised, pl_late, ns_inner, ns_kind>>

\* Pool.submit lines 170-173.
NestSubmitNotify(w) ==
    /\ pl_wpc[w] = "n_notify"
    /\ pl_tn' = NotifyOne(pl_tn).q
    /\ pl_wl' = ReleaseWaiters(pl_wl, NotifyOne(pl_tn).woken)
    /\ pl_wpc' = [pl_wpc EXCEPT ![w] = "n_result"]
    /\ UNCHANGED <<pl_tasks, pl_lock, pl_tp, pl_shutting_down, pl_active, pl_wtask, pl_pfn,
                   pl_pstatus, pl_presult, pl_pevent, pl_made, pl_cpc, pl_ctask, pl_mpc,
                   pl_raised, pl_late, ns_inner, ns_kind>>

\* The wrapper's .result() on the nested promise (jobs.py 81, 198): Promise.result
\* waits for the promise's event (threads.py 223, sync.py 68-70), and then
\* returns the value or raises the error.  A Loop goes round again after a
\* value (jobs.py 197); in every other case the wrapper ends, and its
\* promise is updated to FINISHED (threads.py 150-155).
NestResult(w) ==
    /\ pl_wpc[w] = "n_result"
    /\ LockCanAcquire(pl_pevent[ns_inner[w]])
    /\ ns_inner' = [ns_inner EXCEPT ![w] = 0]
    /\ IF ns_kind = "loop" /\ pl_presult[ns_inner[w]] = "value"
       THEN /\ pl_wpc' = [pl_wpc EXCEPT ![w] = "call"]
            /\ UNCHANGED <<pl_pstatus, pl_presult, pl_pevent>>
       ELSE /\ pl_wpc' = [pl_wpc EXCEPT ![w] = "notify"]
            /\ pl_pstatus' = [pl_pstatus EXCEPT ![pl_wtask[w]] = "FINISHED"]
            /\ pl_presult' = [pl_presult EXCEPT ![pl_wtask[w]] = pl_presult[ns_inner[w]]]
            /\ pl_pevent' = [pl_pevent EXCEPT ![pl_wtask[w]] = LockReleased]
    /\ UNCHANGED <<pl_tasks, pl_lock, pl_tn, pl_tp, pl_wl, pl_shutting_down, pl_active,
                   pl_wtask, pl_pfn, pl_made, pl_cpc, pl_ctask, pl_mpc, pl_raised, pl_late,
                   ns_kind>>

NestConst == UNCHANGED <<ns_inner, ns_kind>>

\* start_service is called once (jobs.py 20-23).
NestStartService(c) == pl_made = 0 /\ PoolSubmitTest(c, "wrapper")

\* A task that is not a wrapper is called.
NestWorkerCall(w) == ~NestRunsWrapper(w) /\ PoolWorkerCall(w)

NestNext ==
    \/ \E c \in PoolClients : NestStartService(c) /\ NestConst /\ NestFrame
    \/ \E c \in PoolClients : PoolSubmitLock(c) /\ NestConst /\ NestFrame
    \/ \E c \in PoolClients : PoolSubmitAppend(c) /\ NestConst /\ NestFrame
    \/ \E c \in PoolClients : PoolSubmitNotify(c) /\ NestConst /\ NestFrame
    \/ \E w \in PoolWorkers : PoolWorkerLoop(w) /\ NestConst /\ NestFrame
    \/ \E w \in PoolWorkers : PoolWorkerWait(w) /\ NestConst /\ NestFrame
    \/ \E w \in PoolWorkers : PoolWorkerWake(w) /\ NestConst /\ NestFrame
    \/ \E w \in PoolWorkers : PoolWorkerLock(w) /\ NestConst /\ NestFrame
    \/ \E w \in PoolWorkers : PoolWorkerPop(w) /\ NestConst /\ NestFrame
    \/ \E w \in PoolWorkers : PoolWorkerRun(w) /\ NestConst /\ NestFrame
    \/ \E w \in PoolWorkers : NestWorkerCall(w) /\ NestConst /\ NestFrame
    \/ \E w \in PoolWorkers : PoolWorkerNotify(w) /\ NestConst /\ NestFrame
    \/ \E w \in PoolWorkers, fn \in {"returns", "raises"} : NestSubmitTest(w, fn) /\ NestFrame
    \/ \E w \in PoolWorkers : NestSubmitLock(w) /\ NestFrame
    \/ \E w \in PoolWorkers : NestSubmitAppend(w) /\ NestFrame
    \/ \E w \in PoolWorkers : NestSubmitNotify(w) /\ NestFrame
    \/ \E w \in PoolWorkers : NestResult(w) /\ NestFrame

----------------------------------------------------------------------------
(* The specifications: one component runs, the others stay as constructed. *)

\* A component nobody uses: constructed, with no caller.
BarIdle == BarNew(1, 0)
SemIdle == SemNew(0, [t \in Threads |-> <<>>])

BarInit ==
    /\ \E needed \in 1..MaxThreads, callers \in 1..MaxThreads : BarNew(needed, callers)
    /\ SemIdle
    /\ RetryIdle
    /\ SupIdle
    /\ BusIdle
    /\ ThreadIdle
    /\ PoolIdle
    /\ NotificationIdle
    /\ EventIdle
    /\ QueueIdle
    /\ LoopIdle
    /\ NestIdle

BarrierSpec == BarInit /\ [][BarNext]_vars

SemInit ==
    /\ \E limit \in 0..MaxLimit, prog \in [Threads -> SemPrograms] : SemNew(limit, prog)
    /\ BarIdle
    /\ RetryIdle
    /\ SupIdle
    /\ BusIdle
    /\ ThreadIdle
    /\ PoolIdle
    /\ NotificationIdle
    /\ EventIdle
    /\ QueueIdle
    /\ LoopIdle
    /\ NestIdle

SemaphoreSpec == SemInit /\ [][SemNext]_vars

RetryInit ==
    /\ \E cons \in 0..MaxBound, total \in 0..MaxBound, cmgr \in BOOLEAN :
          RetryNew(cons, total, cmgr)
    /\ BarIdle
    /\ SemIdle
    /\ SupIdle
    /\ BusIdle
    /\ ThreadIdle
    /\ PoolIdle
    /\ NotificationIdle
    /\ EventIdle
    /\ QueueIdle
    /\ LoopIdle
    /\ NestIdle

RetrySpec == RetryInit /\ [][RetryNext]_vars

SupInit ==
    /\ \E cons \in 0..MaxBound, total \in 0..MaxBound : SupNew(cons, total)
    /\ BarIdle
    /\ SemIdle
    /\ RetryIdle
    /\ BusIdle
    /\ ThreadIdle
    /\ PoolIdle
    /\ NotificationIdle
    /\ EventIdle
    /\ QueueIdle
    /\ LoopIdle
    /\ NestIdle

SupervisorSpec == SupInit /\ [][SupNext]_vars

ThInit ==
    /\ \E fn \in {"returns", "raises"} : ThreadNew(fn)
    /\ BarIdle
    /\ SemIdle
    /\ RetryIdle
    /\ SupIdle
    /\ BusIdle
    /\ PoolIdle
    /\ NotificationIdle
    /\ EventIdle
    /\ QueueIdle
    /\ LoopIdle
    /\ NestIdle

ThreadSpec == ThInit /\ [][ThNext]_vars

NestInit ==
    /\ \E workers \in 1..MaxPoolWorkers, kind \in {"loop", "once"} : NestNew(workers, kind)
    /\ BarIdle
    /\ SemIdle
    /\ RetryIdle
    /\ SupIdle
    /\ BusIdle
    /\ ThreadIdle
    /\ NotificationIdle
    /\ EventIdle
    /\ QueueIdle
    /\ LoopIdle

NestSpec == NestInit /\ [][NestNext]_vars

LoopInit ==
    /\ \E cons \in 0..MaxLimit, total \in 0..MaxLimit, args \in {"none", "one"} :
           LoopNew(cons, total, args)
    /\ BarIdle
    /\ SemIdle
    /\ RetryIdle
    /\ SupIdle
    /\ BusIdle
    /\ ThreadIdle
    /\ PoolIdle
    /\ NotificationIdle
    /\ EventIdle
    /\ QueueIdle
    /\ NestIdle

LoopSpec == LoopInit /\ [][LoopNext]_vars

QueueInit ==
    /\ \E max_size \in 1..MaxSize, overflow_behavior \in {"RAISE", "BLOCK", "DROP"} :
           QueueNew(max_size, overflow_behavior)
    /\ BarIdle
    /\ SemIdle
    /\ RetryIdle
    /\ SupIdle
    /\ BusIdle
    /\ ThreadIdle
    /\ PoolIdle
    /\ NotificationIdle
    /\ EventIdle
    /\ LoopIdle
    /\ NestIdle

QueueSpec == QueueInit /\ [][QueueNext]_vars

EventInit ==
    /\ EventIdle
    /\ BarIdle
    /\ SemIdle
    /\ RetryIdle
    /\ SupIdle
    /\ BusIdle
    /\ ThreadIdle
    /\ PoolIdle
    /\ NotificationIdle
    /\ QueueIdle
    /\ LoopIdle
    /\ NestIdle

EventSpec == EventInit /\ [][EventNext]_vars

NotifInit ==
    /\ NotificationNew
    /\ BarIdle
    /\ SemIdle
    /\ RetryIdle
    /\ SupIdle
    /\ BusIdle
    /\ ThreadIdle
    /\ PoolIdle
    /\ EventIdle
    /\ QueueIdle
    /\ LoopIdle
    /\ NestIdle

NotifSpec == NotifInit /\ [][NotifNext]_vars

PoolInit ==
    /\ PoolNew
    /\ BarIdle
    /\ SemIdle
    /\ RetryIdle
    /\ SupIdle
    /\ BusIdle
    /\ ThreadIdle
    /\ NotificationIdle
    /\ EventIdle
    /\ QueueIdle
    /\ LoopIdle
    /\ NestIdle

PoolSpec == PoolInit /\ [][PoolNext]_vars

BusInit ==
    /\ BusNew
    /\ BarIdle
    /\ SemIdle
    /\ RetryIdle
    /\ SupIdle
    /\ ThreadIdle
    /\ PoolIdle
    /\ NotificationIdle
    /\ EventIdle
    /\ QueueIdle
    /\ LoopIdle
    /\ NestIdle

BusSpec == BusInit /\ [][BusNext]_vars

\* The bus after g = Group(raw) and, for every mailbox m and every group in
\* subs[m] (g or g.parent), m.subscribe(group).
BusBuilt(raw, subs) ==
    LET made == GroupNew(<<>>, [n \in {} |-> NoGroup], raw)
        keep == Reachable(made.heap, {made.obj})
        subscribed == UNION {subs[m] : m \in Boxes}
    IN  /\ grp_groups = [n \in {} |-> NoGroup]
        /\ grp_heap = Collect(made.heap, keep)
        /\ grp_made = <<[raw |-> raw, obj |-> Collected(keep, made.obj)]>>
        /\ grp_raised = FALSE
        /\ bus_extensions = [g \in {} |-> DefaultResponse]
        /\ bus_chats = [g \in subscribed |-> {m \in Boxes : g \in subs[m]}]
        /\ bus_subscribed = Cardinality({p \in Boxes \X subscribed : p[2] \in subs[p[1]]})
        /\ mb_messages = [m \in Boxes |-> <<>>]
        /\ mb_waiters = [m \in Boxes |-> <<>>]
        /\ mb_wlock = [m \in Boxes |-> "none"]
        /\ mb_pc = [m \in Boxes |-> "idle"]
        /\ mb_got = [m \in Boxes |-> <<>>]
        /\ mb_count = [m \in Boxes |-> 0]
        /\ bus_stack = <<>>
        /\ bus_sends = 0
        /\ bus_target = NoGroup
        /\ bus_delivered = [m \in Boxes |-> 0]
        /\ bus_quiet = FALSE
        /\ bus_error = FALSE

\* The heap after a = Group("a/x") and b = Group("b"): a, its parent a/...
\* and b.
ExtHeap ==
    LET made1 == GroupNew(<<>>, [n \in {} |-> NoGroup], <<"a", "x">>)
        keep1 == Reachable(made1.heap, {made1.obj})
        heap1 == Collect(made1.heap, keep1)
        made2 == GroupNew(heap1, [n \in {} |-> NoGroup], <<"b">>)
        keep2 == DOMAIN heap1 \cup Reachable(made2.heap, {made2.obj})
    IN  [heap |-> Collect(made2.heap, keep2),
         a    |-> Collected(keep2, Collected(keep1, made1.obj)),
         b    |-> Collected(keep2, made2.obj)]

\* The bus after these two calls and, for every group g of extensions, an
\* add_extension on g of an extension that answers extensions[g], and, for
\* every mailbox m and every group in subs[m], m.subscribe(group).
ExtBuilt(extensions, subs) ==
    LET subscribed == UNION {subs[m] : m \in Boxes}
    IN  /\ grp_groups = [n \in {} |-> NoGroup]
        /\ grp_heap = ExtHeap.heap
        /\ grp_made = <<[raw |-> <<"a", "x">>, obj |-> ExtHeap.a],
                        [raw |-> <<"b">>, obj |-> ExtHeap.b]>>
        /\ grp_raised = FALSE
        /\ bus_extensions = extensions
        /\ bus_chats = [g \in subscribed |-> {m \in Boxes : g \in subs[m]}]
        /\ bus_subscribed = Cardinality({p \in Boxes \X subscribed : p[2] \in subs[p[1]]})
        /\ mb_messages = [m \in Boxes |-> <<>>]
        /\ mb_waiters = [m \in Boxes |-> <<>>]
        /\ mb_wlock = [m \in Boxes |-> "none"]
        /\ mb_pc = [m \in Boxes |-> "idle"]
        /\ mb_got = [m \in Boxes |-> <<>>]
        /\ mb_count = [m \in Boxes |-> 0]
        /\ bus_stack = <<>>
        /\ bus_sends = 0
        /\ bus_target = NoGroup
        /\ bus_delivered = [m \in Boxes |-> 0]
        /\ bus_quiet = FALSE
        /\ bus_error = FALSE

\* Extensions in use: the tables are built, with extensions of every
\* policy; a program makes one send.
ExtensionInit ==
    /\ \E bound \in SUBSET DOMAIN ExtHeap.heap :
          /\ Cardinality(bound) <= MaxExtensions
          /\ \E extensions \in [bound -> Policies(DOMAIN ExtHeap.heap)],
                subs \in [Boxes -> SUBSET DOMAIN ExtHeap.heap] :
                /\ Cardinality(subs["M"]) + Cardinality(subs["N"]) <= MaxSubscriptions
                /\ ExtBuilt(extensions, subs)
    /\ BarIdle
    /\ SemIdle
    /\ RetryIdle
    /\ SupIdle
    /\ ThreadIdle
    /\ PoolIdle
    /\ NotificationIdle
    /\ EventIdle
    /\ QueueIdle
    /\ LoopIdle
    /\ NestIdle

ExtensionNext ==
    \/ \E g \in GroupObjects, content \in Contents :
          BusBuilding /\ BusSend(g, content) /\ BusFrame
    \/ BusSendUp /\ BusFrame
    \/ BusSendNextCall /\ BusFrame
    \/ BusSendReturn /\ BusFrame

ExtensionSpec == ExtensionInit /\ [][ExtensionNext]_vars

\* Mailboxes in use: the tables are built, with no extension; a program
\* sends, and the consumer of each mailbox calls get() again and again.
MailboxInit ==
    /\ \E subs \in [Boxes -> SUBSET {1, 2}] :
          /\ Cardinality(subs["M"]) + Cardinality(subs["N"]) <= MaxSubscriptions
          /\ BusBuilt(<<"a", "b", "c">>, subs)
    /\ BarIdle
    /\ SemIdle
    /\ RetryIdle
    /\ SupIdle
    /\ ThreadIdle
    /\ PoolIdle
    /\ NotificationIdle
    /\ EventIdle
    /\ QueueIdle
    /\ LoopIdle
    /\ NestIdle

MailboxNext ==
    \/ \E g \in GroupObjects, content \in Contents :
          bus_sends < MaxSends /\ BusSend(g, content) /\ BusFrame
    \/ BusSendUp /\ BusFrame
    \/ BusSendReturn /\ BusFrame
    \/ \E m \in Boxes : MbGetCheck(m) /\ BusFrame
    \/ \E m \in Boxes : MbGetWait(m) /\ BusFrame
    \/ \E m \in Boxes : MbGetWake(m) /\ BusFrame

MailboxSpec == MailboxInit /\ [][MailboxNext]_vars

\* Every thread that can run does run: the service's thread, and the thread
\* that calls start_service and shutdown.
SupervisorFairSpec ==
    /\ SupervisorSpec
    /\ WF_vars(SvcBegin /\ SupFrame)
    /\ WF_vars(SvcSubmit /\ SupFrame)
    /\ WF_vars(SvcCountFailure /\ SupFrame)
    /\ WF_vars(SupShutdownSwap /\ SupFrame)
    /\ WF_vars(SupShutdownJoin /\ SupFrame)
    /\ WF_vars(SupShutdownWait /\ SupFrame)

\* C1: when exactly N threads call push on a Barrier(N), all N calls return
\* (no run ends with a caller still inside push); when fewer than N threads
\* call push, none of the calls returns.
C1_BarrierAllOrNone ==
    /\ (bar_callers = bar_waiters_needed /\ ~ENABLED BarNext)
          => \A t \in BarCallers : bar_pc[t] = "done"
    /\ bar_callers < bar_waiters_needed
          => \A t \in BarCallers : bar_pc[t] # "done"

\* A thread blocked inside acquire, and a thread with a release still to do.
SemBlockedInAcquire(t) == sem_pc[t] = "acq_block" /\ ~NotifCanWake(sem_wlock[t])
SemReleasePending(t) ==
    \/ sem_pc[t] \in {"rel_cs", "rel_notify"}
    \/ sem_pc[t] = "call" /\ Head(sem_prog[t]) = "R"

\* C2: with the permits exhausted, a thread blocked inside acquire returns
\* after another thread calls release, and release never blocks forever: no
\* run ends (no step possible any more) with a thread still blocked inside
\* acquire while another thread's release call has not returned.
C2_ReleaseUnblocksAcquire ==
    ~ENABLED SemNext =>
        ~(\E a, r \in Threads :
              a # r /\ SemBlockedInAcquire(a) /\ SemReleasePending(r))

\* C3: in every reachable state of a Semaphore(L), remaining >= 0, the permits
\* issued minus the permits released equal L - remaining, and at most L
\* acquires have returned without a matching release.
C3_SemaphoreAccounting ==
    /\ sem_remaining >= 0
    /\ sem_issued - sem_released = sem_limit - sem_remaining
    /\ sem_issued - sem_released <= sem_limit

\* C3's case: all L >= 1 permits are out after a release took place, and a
\* further acquire found none left and waits.
C3_Witness ==
    /\ sem_limit >= 1
    /\ sem_released >= 1
    /\ sem_issued - sem_released = sem_limit
    /\ \E t \in Threads : SemBlockedInAcquire(t)

\* C4: Retry(fn, None, max_consecutive_fails=3, max_total_fails=5) with an
\* always failing fn escalates after 3 consecutive failures: the promise is
\* finished, crashed, once fn has failed 3 times, and fn is not attempted a
\* fourth time.
C4_EscalatesAfterThreeFailures ==
    (rt_arg_consecutive = 3 /\ rt_arg_total = 5 /\ ~rt_cmgr) =>
        /\ rt_fails = 3 => (rt_status = "FINISHED" /\ rt_crashed)
        /\ rt_attempts <= 3

\* The service "w" is Loop(Retry(worker)) with Retry's default (absent) bounds.
SvcIsDefaultRetry == svc_max_fails_total = Inf /\ svc_max_consecutive_fails = Inf

\* C5: after start_service("w", Loop(Retry(worker))), a call to shutdown
\* eventually returns (the service sees the replacement submitter's shutdown
\* signal, its promise finishes, shutdown suppresses the signal): once
\* shutdown has replaced the submitter and waits for the service's promise,
\* it eventually returns.
C5_ShutdownReturns ==
    (SvcIsDefaultRetry /\ "w" \in sup_jobs /\ sup_pc = "wait") ~> (sup_pc = "returned")


\* The mailboxes subscribed to the group object g.
Subscribers(g) == IF g \in DOMAIN bus_chats THEN bus_chats[g] ELSE {}

\* C6: two Group calls whose names have the same canonical form (split at
\* "/", empty pieces dropped) return the same Group object, so the
\* mailboxes subscribed through one are the subscribers of the other.
C6_GroupInterned ==
    \A i, j \in 1..Len(grp_made) :
        Canonical(grp_made[i].raw) = Canonical(grp_made[j].raw)
            => /\ grp_made[i].obj = grp_made[j].obj
               /\ Subscribers(grp_made[i].obj) = Subscribers(grp_made[j].obj)


\* The last top-level send has returned, and no table changed since it began.
BusSendDone == bus_sends > 0 /\ bus_stack = <<>> /\ ~bus_error /\ bus_quiet

\* C7: with M subscribed to a/b/c only, N subscribed to a/b/c/d only and no
\* extension, a send to a/b/c/d appends exactly one message to M.
C7_HierarchicalDelivery ==
    \A g1, g2 \in GroupObjects :
        ( /\ grp_heap[g1].name = <<"a", "b", "c">>
          /\ grp_heap[g2].name = <<"a", "b", "c", "d">>
          /\ DOMAIN bus_chats = {g1, g2}
          /\ bus_chats[g1] = {"M"}
          /\ bus_chats[g2] = {"N"}
          /\ DOMAIN bus_extensions = {}
          /\ bus_target = g2
          /\ BusSendDone )
        => bus_delivered["M"] = 1


\* C8: send terminates.  The tables do not change while send runs and a
\* response depends on the group and the content only, so a call of send
\* never has, among the calls it is nested in, a call for the same group
\* with the same content and the same exclusion list (such a call would
\* make the same calls again, without end); and no send is given up for
\* its depth.
C8_SendTerminates ==
    /\ ~bus_error
    /\ \A i, j \in 1..Len(bus_stack) :
          ( /\ i < j
            /\ bus_stack[i].group = bus_stack[j].group
            /\ bus_stack[i].content = bus_stack[j].content )
          => bus_stack[i].exclude # bus_stack[j].exclude


\* C9: when no extension forwards, a top-level send appends at most one
\* message to any one mailbox.
C9_AtMostOncePerSubscriber ==
    (\A g \in DOMAIN bus_extensions : bus_extensions[g].forward_to = {})
        => \A m \in Boxes : bus_delivered[m] <= 1


\* C10: get returns the messages of a mailbox in the order of their arrival
\* (first in, first out): the i-th get of a mailbox returns the i-th message
\* appended to it; after m1 then m2 arrived with no get in between, the
\* next get returns m1 and the one after returns m2.
C10_GetIsFifo ==
    \A m \in Boxes : \A i \in 1..Len(mb_got[m]) :
        /\ mb_got[m][i].msg.no = i
        /\ mb_got[m][i].msg.no = mb_got[m][i].arrived - mb_got[m][i].backlog + 1

\* Two messages were waiting in a mailbox, and two get calls returned them.
C10_Witness ==
    \E m \in Boxes :
        /\ Len(mb_got[m]) >= 2
        /\ mb_got[m][1].backlog >= 2
        /\ mb_got[m][1].msg.no = 1
        /\ mb_got[m][2].msg.no = 2

\* C10 as stated: get returns the message that arrived last (last in, first out).
C10_GetIsLifo ==
    \A m \in Boxes : \A i \in 1..Len(mb_got[m]) :
        mb_got[m][i].msg.no = mb_got[m][i].arrived


\* The calls of join and result that have ended.
ThEndedCalls == {<<c, i>> \in ThCallers \X (1..MaxCalls) : i <= Len(th_calls[c])}

\* C11: a join (directly, or through the promise that submit_global returns)
\* that begins after start() was called does not fail with a usage error:
\* it ends with the callable's value, or with the callable's error raised.
C11_JoinAfterStart ==
    \A p \in ThEndedCalls :
        LET call == th_calls[p[1]][p[2]] IN
        call.started => call.out = (IF th_fn = "returns" THEN "value" ELSE "rethrown")


\* C12: every result() call on the promise of a task that has finished
\* ends with the task's outcome (its value, or its error raised), so that a
\* second call ends as the first did, and the status stays FINISHED.
C12_ResultIdempotent ==
    \A p \in ThEndedCalls :
        LET call == th_calls[p[1]][p[2]] IN
        (call.kind = "result" /\ call.finished)
            => /\ call.out = (IF th_fn = "returns" THEN "value" ELSE "rethrown")
               /\ th_status = "FINISHED"

\* C13: once Pool.shutdown has set _shutting_down, no task is appended to the
\* deque of tasks, by a submit that runs concurrently with shutdown either.
C13_NoSubmitAfterShutdown == ~pl_late

\* C14: notify(count) on a notification with k waiters completes without an
\* error and wakes exactly the first min(count, k) waiters of the queue.
C14_NotifyWakesMin ==
    /\ ~nf_last.err
    /\ nf_last.woken = {nf_last.before[i] : i \in 1..Min(nf_last.count, Len(nf_last.before))}

\* C15: an Event is a two-state latch under every interleaving of set, clear
\* and wait: a set call made after a set returned, with no clear since, fails,
\* while a wait is in progress too.
C15_EventIsLatch == \A t \in EventThreads : ev_pc[t] = "set" => ev_seen[t] = 0

\* C16: an add that found the queue full under BLOCK completes once a
\* consumer has popped an item: when nothing more can happen, no add is
\* still blocked after an item was popped past its test.
C16_BlockedAddCompletes ==
    (~ENABLED QueueNext) => \A t \in QueueThreads : q_pc[t] = "add_block" => q_since[t] = 0

\* C17: under DROP an add on a full queue, with no pop in between, leaves
\* the contents and the order of the queue as they were.
C17_DropDiscardsNewItem ==
    (q_overflow_behavior = "DROP" /\ q_last.full /\ q_last.pops = 0) => q_last.after = q_last.before

\* C18: the status of a Thread only moves forward and never leaves FINISHED,
\* over repeated start calls too: the callable is run at most once, once it
\* has run the status is FINISHED, and FINISHED carries the value or the
\* error of the callable.
C18_StatusMonotone ==
    /\ th_runs <= 1
    /\ th_runs >= 1 => th_status = "FINISHED"
    /\ th_status = "FINISHED" => th_result = (IF th_fn = "returns" THEN "value" ELSE "error")


\* The mailbox m holds Message(g, content).
Holds(m, g, content) ==
    \E i \in 1..Len(mb_messages[m]) :
        mb_messages[m][i].group = g /\ mb_messages[m][i].content = content

\* The top-level send has ended.
BusSendEnded == bus_sends > 0 /\ bus_stack = <<>>

\* C19: a send call whose consulted policy cancels appends no message for
\* its group and makes no call for the parent or a child of the group; its
\* only calls are send(g, transformed content, [group]) for the groups g it
\* forwards to, and such a call delivers to the subscribers of g, with the
\* content transformed once more by the policy consulted for g, when g is
\* not the group itself and the policy consulted for g does not cancel.
C19_CancelStillForwards ==
    /\ \A m \in Boxes : \A i \in 1..Len(mb_messages[m]) :
           ~SendResponse(mb_messages[m][i].group).cancel
    /\ \A i \in 1..Len(bus_stack) :
           SendResponse(bus_stack[i].group).cancel
               => /\ bus_stack[i].phase = "rest"
                  /\ bus_stack[i].children = {}
                  /\ i < Len(bus_stack)
                        => /\ bus_stack[i + 1].group \in SendResponse(bus_stack[i].group).forward_to
                           /\ bus_stack[i + 1].exclude = <<bus_stack[i].group>>
                           /\ bus_stack[i + 1].content =
                                  DataTransform(SendResponse(bus_stack[i + 1].group).transform,
                                                bus_stack[i].content)
    /\ (BusSendEnded /\ bus_target \in DOMAIN bus_chats /\ SendResponse(bus_target).cancel)
           => \A g \in SendResponse(bus_target).forward_to, content \in Contents :
                 (g # bus_target /\ ~SendResponse(g).cancel)
                     => \A m \in Subscribers(g) :
                           Holds(m, g, DataTransform(SendResponse(g).transform,
                                      DataTransform(SendResponse(bus_target).transform, content)))

\* An extension on a/... cancels and forwards to b; M is subscribed to a/x
\* and N to b; the send to a/x has ended, with nothing in M and a message in N.
C19_Witness ==
    /\ BusSendEnded
    /\ bus_target = ExtHeap.a
    /\ grp_heap[bus_target].parent \in DOMAIN bus_extensions
    /\ SendResponse(bus_target).cancel
    /\ SendResponse(bus_target).forward_to = {ExtHeap.b}
    /\ Subscribers(bus_target) = {"M"}
    /\ Subscribers(ExtHeap.b) = {"N"}
    /\ mb_messages["M"] = <<>>
    /\ Len(mb_messages["N"]) = 1

\* C19 as stated: whenever the consulted policy cancels, every group of
\* forward_to has the transformed content delivered to its subscribers.
C19_ForwardAlwaysDelivers ==
    (BusSendEnded /\ bus_target \in DOMAIN bus_chats /\ SendResponse(bus_target).cancel)
        => \A g \in SendResponse(bus_target).forward_to, content \in Contents :
              \A m \in Subscribers(g) :
                  Holds(m, g, DataTransform(SendResponse(bus_target).transform, content))


\* The worker of the service runs only in a thread that a submit call of
\* the service starts.
SvcWorkerInvoked == svc_last_call = "thread"

\* C20: the service that add_extension starts, Loop(Retry(background_worker))
\* under a Supervisor of its own, runs the worker again and again: once the
\* service is started, background_worker is eventually invoked.
C20_WorkerRunsPerpetually ==
    (SvcIsDefaultRetry /\ "w" \in sup_jobs) ~> SvcWorkerInvoked


\* A step of the worker w inside __worker.
PoolWorkerStep(w) ==
    \/ PoolWorkerLoop(w)
    \/ PoolWorkerWait(w)
    \/ PoolWorkerWake(w)
    \/ PoolWorkerLock(w)
    \/ PoolWorkerPop(w)
    \/ PoolWorkerRun(w)
    \/ PoolWorkerCall(w)
    \/ PoolWorkerNotify(w)

\* No submit call is in progress.
PoolClientsIdle == \A c \in PoolClients : pl_cpc[c] = "idle"

\* C21: after Pool.shutdown has returned, every worker of the pool, a worker
\* that waits for a task included, eventually leaves its loop: with shutdown
\* returned and no submit in progress, a worker either has left its loop or
\* can take a step.
C21_ShutdownStopsWorkers ==
    (pl_mpc = "done" /\ PoolClientsIdle)
        => \A w \in PoolWorkers : pl_wpc[w] = "exit" \/ ENABLED PoolWorkerStep(w)


\* C22: the promise of a Loop around a Retry finishes only when a failure
\* counter of the Retry exceeds its bound; an attempt that fails within the
\* budget is counted and does not end the loop.
C22_LoopEndsOnlyOnEscalation ==
    lp_status = "FINISHED"
        => RetryEscalates(lp_consecutive_fails, lp_total_fails,
                          lp_max_consecutive_fails, lp_max_fails_total)


\* C23: a task that submit accepted is eventually taken from the deque by a
\* worker: with no shutdown called, no submit in progress and a task in the
\* deque, some worker can take a step (the workers are not all asleep on
\* the notification of new tasks).
C23_AcceptedTaskRuns ==
    (pl_mpc = "idle" /\ PoolClientsIdle /\ Len(pl_tasks) > 0)
        => \E w \in PoolWorkers : ENABLED PoolWorkerStep(w)

\* The steps of a worker of a pool that runs a service.
NestWorkerStep(w) ==
    \/ PoolWorkerLoop(w)
    \/ PoolWorkerWait(w)
    \/ PoolWorkerWake(w)
    \/ PoolWorkerLock(w)
    \/ PoolWorkerPop(w)
    \/ PoolWorkerRun(w)
    \/ NestWorkerCall(w)
    \/ PoolWorkerNotify(w)
    \/ NestSubmitLock(w)
    \/ NestSubmitAppend(w)
    \/ NestSubmitNotify(w)
    \/ NestResult(w)

\* C24: on a Supervisor's own pool of any number W >= 1 of workers, a service
\* Loop(Once(fn)) or Once(fn, crash_manager) makes progress: when its wrapper
\* waits for the promise of the nested job it submitted to the same pool, and
\* no submit is under way, some worker of the pool can take a step, so that
\* the nested job is executed and no worker waits forever for it.
C24_NestedJobRuns ==
    \A w \in PoolWorkers :
        (pl_wpc[w] = "n_result" /\ PoolClientsIdle)
            => \E v \in PoolWorkers : ENABLED NestWorkerStep(v)

====
